---- MODULE Spec2Model ----
(***************************************************************************)
(* Approval workflow and admin scope of the research-hours application.   *)
(*                                                                         *)
(* The three item kinds (Publication, Project, OtherActivity) share one   *)
(* executor (app/services/approval.py) and identical owner routes, so an  *)
(* item of the model stands for a row of any of the three tables.         *)
(* Timestamps (approved_at, returned_at) are kept as set / not set.       *)
(***************************************************************************)
EXTENDS Naturals, Sequences, FiniteSets, TLC

(***************************************************************************)
(* Bounds of the model                                                     *)
(***************************************************************************)
\* most rows of approval_logs a behaviour writes
MaxLog == 2
\* most rows of approval_logs a behaviour of the staffed-chain specification writes
MaxChainLog == 3
\* most rows of admin_roles that exist at one time
MaxRoles == 3
\* approval_logs rows in the batch specification
MaxBatchLog == 3
\* most other-activity records handed to the yearly summary
MaxActivities == 2

(***************************************************************************)
(* The organisation: users, units, divisions                               *)
(***************************************************************************)
NoId == "none"
Null == "null"

Users == {"u1", "u2"}
Units == {"F1", "O1"}
Divisions == {"D1"}
Items == {"i1"}

\* OrganizationUnit.unit_type
UnitType == [F1 |-> "faculty", O1 |-> "office"]
\* Division.organization_unit_id
DivUnit == [D1 |-> "F1"]
\* Publication.user_id / Project.user_id / OtherActivity.user_id
OwnerOf == [i1 |-> "u1", i2 |-> "u1"]

\* ApprovalStatus
Statuses ==
    {"draft", "pending", "department_approved", "faculty_approved", "approved", "returned"}

\* AdminLevel
Levels == {"department", "faculty", "university"}

ADMIN_LEVEL_HIERARCHY == [none |-> 0, department |-> 1, faculty |-> 2, university |-> 3]

\* request.form["reason"] of a return: empty, blank, or a text
Reasons == {"", " ", "fix"}

\* a strip that leaves the text as it is
strip_nothing(r) == r

\* str.strip() on the reasons above
strip(r) == IF r = " " THEN "" ELSE r

(***************************************************************************)
(* Rows of admin_roles.  A row is identified by the columns of its unique *)
(* constraint (user_id, role_level, organization_unit_id, division_id);   *)
(* the rows that _validate_admin_role_scope lets through are RoleKeys.    *)
(***************************************************************************)
RoleKeys ==
    {[user |-> u, level |-> "university", unit |-> NoId, div |-> NoId] : u \in Users}
    \cup {[user |-> u, level |-> "faculty", unit |-> ou, div |-> NoId] :
              u \in Users, ou \in Units}
    \cup {[user |-> u, level |-> "department", unit |-> DivUnit[d], div |-> d] :
              u \in Users, d \in Divisions}

NoRole == [user |-> NoId, level |-> "none", unit |-> NoId, div |-> NoId]
\* a session value naming a row that was deleted (ids are not reused)
StaleRole == [user |-> NoId, level |-> "stale", unit |-> NoId, div |-> NoId]

VARIABLES
    userUnit,      \* User.organization_unit_id
    userDiv,       \* User.division_id
    userActive,    \* User.is_active
    roles,         \* admin_roles: RoleKeys -> "absent" | "active" | "inactive"
    sessRole,      \* session[ACT_AS_SESSION_KEY] of each user's browser
    sessUserMode,  \* session[ACT_AS_USER_MODE_KEY]
    items,         \* the item rows
    log,           \* approval_logs, in insertion order
    req,           \* per request slot: the item row a running approve request has loaded;
                   \* in the batch specification, the session of the batch request
    ctx,           \* ApprovalContext handed to the pure decision functions
    dec            \* what the decision functions returned for ctx

vars ==
    <<userUnit, userDiv, userActive, roles, sessRole, sessUserMode, items, log, req, ctx, dec>>

orgVars == <<userUnit, userDiv, userActive, roles>>
sessVars == <<sessRole, sessUserMode>>
pureVars == <<ctx, dec>>

(***************************************************************************)
(* APPROVAL WORKFLOW (pure logic), services/approval.py                    *)
(***************************************************************************)
ApprovalContext(s, office, cu, cf, cd, md, mf) ==
    [current_status |-> s, is_office |-> office, can_university |-> cu,
     can_faculty |-> cf, can_department |-> cd,
     missing_department_admin |-> md, missing_faculty_admin |-> mf]

\* `ctx.current_status or "pending"`
StatusOrPending(s) == IF s = Null THEN "pending" ELSE s

can_approve(c) ==
    LET s == StatusOrPending(c.current_status) IN
    IF c.is_office THEN
        IF s # "pending" THEN FALSE
        ELSE IF ~c.can_university THEN FALSE
        ELSE TRUE
    ELSE IF s = "pending" THEN
        IF c.can_department THEN TRUE
        ELSE IF c.can_faculty /\ c.missing_department_admin THEN TRUE
        ELSE IF c.can_university /\ c.missing_department_admin /\ c.missing_faculty_admin
            THEN TRUE
        ELSE FALSE
    ELSE IF s = "department_approved" THEN
        IF c.can_faculty THEN TRUE
        ELSE IF c.can_university /\ c.missing_faculty_admin THEN TRUE
        ELSE FALSE
    ELSE IF s = "faculty_approved" THEN
        IF c.can_university THEN TRUE ELSE FALSE
    ELSE FALSE

\* next_status without the vacancy test on the faculty row
next_status_no_gap(c) ==
    LET s == StatusOrPending(c.current_status) IN
    IF c.is_office THEN
        IF s = "pending" /\ c.can_university THEN "approved" ELSE s
    ELSE IF s = "pending" THEN
        IF c.can_department THEN "department_approved"
        ELSE IF c.can_faculty THEN "faculty_approved"
        ELSE IF c.can_university /\ c.missing_department_admin /\ c.missing_faculty_admin
            THEN "approved"
        ELSE s
    ELSE IF s = "department_approved" THEN
        IF c.can_faculty THEN "faculty_approved"
        ELSE IF c.can_university /\ c.missing_faculty_admin THEN "approved"
        ELSE s
    ELSE IF s = "faculty_approved" THEN
        IF c.can_university THEN "approved" ELSE s
    ELSE s

\* next_status with the university row of a pending item tested first and without
\* its vacancy tests
next_status_university_first(c) ==
    LET s == StatusOrPending(c.current_status) IN
    IF c.is_office THEN
        IF s = "pending" /\ c.can_university THEN "approved" ELSE s
    ELSE IF s = "pending" THEN
        IF c.can_university THEN "approved"
        ELSE IF c.can_department THEN "department_approved"
        ELSE IF c.can_faculty /\ c.missing_department_admin THEN "faculty_approved"
        ELSE s
    ELSE IF s = "department_approved" THEN
        IF c.can_faculty THEN "faculty_approved"
        ELSE IF c.can_university /\ c.missing_faculty_admin THEN "approved"
        ELSE s
    ELSE IF s = "faculty_approved" THEN
        IF c.can_university THEN "approved" ELSE s
    ELSE s

next_status(c) ==
    LET s == StatusOrPending(c.current_status) IN
    IF c.is_office THEN
        IF s = "pending" /\ c.can_university THEN "approved" ELSE s
    ELSE IF s = "pending" THEN
        IF c.can_department THEN "department_approved"
        ELSE IF c.can_faculty /\ c.missing_department_admin THEN "faculty_approved"
        ELSE IF c.can_university /\ c.missing_department_admin /\ c.missing_faculty_admin
            THEN "approved"
        ELSE s
    ELSE IF s = "department_approved" THEN
        IF c.can_faculty THEN "faculty_approved"
        ELSE IF c.can_university /\ c.missing_faculty_admin THEN "approved"
        ELSE s
    ELSE IF s = "faculty_approved" THEN
        IF c.can_university THEN "approved" ELSE s
    ELSE s

\* the level of an approve taken from the status the item is leaving only
action_level_by_status(c) ==
    IF ~can_approve(c) THEN NoId
    ELSE IF c.is_office THEN "university"
    ELSE IF StatusOrPending(c.current_status) = "pending" THEN "department"
    ELSE IF StatusOrPending(c.current_status) = "department_approved" THEN "faculty"
    ELSE "university"

action_level(c) ==
    LET s == StatusOrPending(c.current_status) IN
    IF c.is_office THEN
        IF s = "pending" /\ c.can_university THEN "university" ELSE NoId
    ELSE IF s = "pending" THEN
        IF c.can_department THEN "department"
        ELSE IF c.can_faculty /\ c.missing_department_admin THEN "faculty"
        ELSE IF c.can_university /\ c.missing_department_admin /\ c.missing_faculty_admin
            THEN "university"
        ELSE NoId
    ELSE IF s = "department_approved" THEN
        IF c.can_faculty THEN "faculty"
        ELSE IF c.can_university /\ c.missing_faculty_admin THEN "university"
        ELSE NoId
    ELSE IF s = "faculty_approved" /\ c.can_university THEN "university"
    ELSE NoId

can_return(c) ==
    IF c.is_office THEN c.can_university
    ELSE c.can_university \/ c.can_faculty \/ c.can_department

approval_can_return(is_office, has_univ, cu, cf, cd) ==
    can_return(ApprovalContext("pending", is_office,
                               IF is_office THEN has_univ ELSE cu, cf, cd, FALSE, FALSE))

(***************************************************************************)
(* Scope resolver: db_models.User and services/approval.py.  The request  *)
(* computes its effective context once (it is cached on flask.g); the     *)
(* operators below take that context as their first argument c.           *)
(***************************************************************************)
\* User.active_admin_roles / _get_active_admin_roles
ActiveRolesOf(u) == {k \in RoleKeys : k.user = u /\ roles[k] = "active"}

\* User.is_admin
is_admin(u) == ActiveRolesOf(u) # {}

\* User.highest_admin_level
\* highest_admin_level keeping the first level met instead of the highest
highest_admin_level_lowest_first(u) ==
    IF \E k \in RoleKeys : k.user = u /\ roles[k] = "active" /\ k.level = "department"
        THEN "department"
    ELSE IF \E k \in RoleKeys : k.user = u /\ roles[k] = "active" /\ k.level = "faculty"
        THEN "faculty"
    ELSE IF \E k \in RoleKeys : k.user = u /\ roles[k] = "active" /\ k.level = "university"
        THEN "university"
    ELSE "none"

highest_admin_level(u) ==
    IF \E k \in RoleKeys : k.user = u /\ roles[k] = "active" /\ k.level = "university"
        THEN "university"
    ELSE IF \E k \in RoleKeys : k.user = u /\ roles[k] = "active" /\ k.level = "faculty"
        THEN "faculty"
    ELSE IF \E k \in RoleKeys : k.user = u /\ roles[k] = "active" /\ k.level = "department"
        THEN "department"
    ELSE "none"

\* User.has_admin_role; NoId stands for an argument left at None
has_admin_role(u, role_level, org_unit_id, division_id) ==
    \E k \in RoleKeys :
        /\ k.user = u /\ roles[k] = "active"
        /\ k.level = role_level
        /\ \/ role_level = "university"
           \/ role_level = "faculty" /\ (org_unit_id = NoId \/ k.unit = org_unit_id)
           \/ role_level = "department" /\ (division_id = NoId \/ k.div = division_id)

\* the sort key of _get_active_admin_roles inside one level: unit name, division name
\* (the faculty unit's name sorts before the office's)
RoleRank(k) == IF k.unit = "F1" THEN 1 ELSE IF k.unit = "O1" THEN 2 ELSE 0

\* next(r for r in roles if r.role_level == l, None) on the sorted list S
FirstAtLevel(S, l) ==
    IF \E k \in S : k.level = l
    THEN CHOOSE k \in S : k.level = l /\ \A j \in S : j.level = l => RoleRank(k) <= RoleRank(j)
    ELSE NoRole

\* preferred_role taking the highest grant first
preferred_role_highest_first(S) ==
    IF \E k \in S : k.level = "university" THEN FirstAtLevel(S, "university")
    ELSE IF \E k \in S : k.level = "faculty" THEN FirstAtLevel(S, "faculty")
    ELSE FirstAtLevel(S, "department")

\* preferred_role of get_act_as_role: faculty, then department, then university
preferred_role(S) ==
    IF \E k \in S : k.level = "faculty" THEN FirstAtLevel(S, "faculty")
    ELSE IF \E k \in S : k.level = "department" THEN FirstAtLevel(S, "department")
    ELSE FirstAtLevel(S, "university")

\* get_act_as_role on the session values (user_mode, role_id) and the user's
\* active roles S
act_as_role(user_mode, role_id, S) ==
    IF user_mode THEN NoRole
    ELSE IF role_id # NoRole THEN (IF role_id \in S THEN role_id ELSE NoRole)
    ELSE IF Cardinality(S) > 1 THEN preferred_role(S)
    ELSE NoRole

\* get_act_as_role(user): the role the request acts as
get_act_as_role(u) == act_as_role(sessUserMode[u], sessRole[u], ActiveRolesOf(u))

\* what get_act_as_role leaves in session[ACT_AS_SESSION_KEY]: a stale id is
\* popped, a default is stored; plain-user mode leaves the key alone
SessionAfter(u) == IF sessUserMode[u] THEN sessRole[u] ELSE get_act_as_role(u)

\* the dict get_effective_context builds from the act-as role r
effective_context(user_mode, r, highest) ==
    IF user_mode THEN [level |-> "none", act_as_role |-> NoRole, user_mode |-> TRUE]
    ELSE [level |-> IF r # NoRole THEN r.level ELSE highest,
          act_as_role |-> r, user_mode |-> FALSE]

get_effective_context(u) ==
    effective_context(sessUserMode[u], get_act_as_role(u), highest_admin_level(u))

\* effective_admin_level(user) == get_effective_context(user)["level"]
effective_admin_level(c) == c.level

has_university_access(c, u) ==
    IF c.user_mode THEN FALSE
    ELSE IF c.act_as_role # NoRole THEN c.level = "university"
    ELSE has_admin_role(u, "university", NoId, NoId) \/ c.level = "university"

get_role_scope_ids(c, u, role_level) ==
    IF c.user_mode THEN {}
    ELSE IF c.act_as_role # NoRole THEN
        IF c.act_as_role.level # role_level THEN {}
        ELSE IF role_level = "faculty" /\ c.act_as_role.unit # NoId THEN {c.act_as_role.unit}
        ELSE IF role_level = "department" /\ c.act_as_role.div # NoId THEN {c.act_as_role.div}
        ELSE {}
    ELSE IF role_level = "faculty" THEN
        {k.unit : k \in {j \in RoleKeys : /\ j.user = u /\ roles[j] = "active"
                                          /\ j.level = "faculty" /\ j.unit # NoId}}
    ELSE IF role_level = "department" THEN
        {k.div : k \in {j \in RoleKeys : /\ j.user = u /\ roles[j] = "active"
                                         /\ j.level = "department" /\ j.div # NoId}}
    ELSE {}

\* counts rows of admin_roles joined with users; NoId / NoRole stand for an
\* argument left at None
count_effective_admins_by_scope(role_level, organization_unit_id, division_id, exclude_role, exclude_user_id) ==
    Cardinality({k \in RoleKeys :
        /\ k.level = role_level
        /\ roles[k] = "active"
        /\ userActive[k.user]
        /\ (role_level = "faculty" /\ organization_unit_id # NoId
                => k.unit = organization_unit_id)
        /\ (role_level = "department" /\ division_id # NoId => k.div = division_id)
        /\ (exclude_role # NoRole => k # exclude_role)
        /\ (exclude_user_id # NoId => k.user # exclude_user_id)})

\* the branch of get_scope_permissions without an act-as role
scope_permissions_auto(c, fids, dids, admin_user, item_owner) ==
    [u |-> has_university_access(c, admin_user),
     f |-> IF userUnit[item_owner] = NoId THEN FALSE
           ELSE IF fids # {} THEN userUnit[item_owner] \in fids
           ELSE \/ has_admin_role(admin_user, "faculty", userUnit[item_owner], NoId)
                \/ c.level = "faculty" /\ userUnit[item_owner] = userUnit[admin_user],
     d |-> IF userDiv[item_owner] = NoId THEN FALSE
           ELSE IF dids # {} THEN userDiv[item_owner] \in dids
           ELSE \/ has_admin_role(admin_user, "department", NoId, userDiv[item_owner])
                \/ c.level = "department" /\ userDiv[item_owner] = userDiv[admin_user]]

\* get_scope_permissions without the act-as lock: every stored grant counts
get_scope_permissions_all_grants(c, admin_user, item_owner) ==
    scope_permissions_auto(c, get_role_scope_ids(c, admin_user, "faculty"),
                           get_role_scope_ids(c, admin_user, "department"),
                           admin_user, item_owner)

\* get_scope_permissions: (can_university, can_faculty, can_department)
get_scope_permissions(c, admin_user, item_owner) ==
    IF c.act_as_role # NoRole THEN
        IF c.level = "university" THEN [u |-> TRUE, f |-> TRUE, d |-> TRUE]
        ELSE IF c.level = "faculty" THEN
            [u |-> FALSE,
             f |-> c.act_as_role.unit # NoId /\ userUnit[item_owner] = c.act_as_role.unit,
             d |-> FALSE]
        ELSE IF c.level = "department" THEN
            [u |-> FALSE, f |-> FALSE,
             d |-> c.act_as_role.div # NoId /\ userDiv[item_owner] = c.act_as_role.div]
        ELSE [u |-> FALSE, f |-> FALSE, d |-> FALSE]
    ELSE scope_permissions_auto(c, get_role_scope_ids(c, admin_user, "faculty"),
                                get_role_scope_ids(c, admin_user, "department"),
                                admin_user, item_owner)

is_office_user(u) == userUnit[u] # NoId /\ UnitType[userUnit[u]] = "office"

has_department_admin_for_owner(item_owner) ==
    IF userDiv[item_owner] = NoId THEN FALSE
    ELSE count_effective_admins_by_scope("department", NoId, userDiv[item_owner],
                                         NoRole, NoId) > 0

has_faculty_admin_for_owner(item_owner) ==
    IF userUnit[item_owner] = NoId THEN FALSE
    ELSE count_effective_admins_by_scope("faculty", userUnit[item_owner], NoId,
                                         NoRole, NoId) > 0

(***************************************************************************)
(* Visibility filter: whether the row of item i is in the filtered query   *)
(***************************************************************************)
\* the scope test shared by filter_items_by_scope and filter_users_by_scope:
\* unit, div are the placement of the row's user (the item's owner, or the user)
in_scope(c, fids, dids, admin_user, unit, div) ==
    IF c.level = "university" THEN TRUE
    ELSE IF c.level = "faculty" THEN
        IF fids # {} THEN unit \in fids
        ELSE IF userUnit[admin_user] # NoId THEN unit = userUnit[admin_user]
        ELSE FALSE
    ELSE IF c.level = "department" THEN
        IF dids # {} THEN div \in dids
        ELSE IF userDiv[admin_user] # NoId THEN div = userDiv[admin_user]
        ELSE FALSE
    ELSE FALSE

filter_items_by_scope(c, i, admin_user) ==
    in_scope(c, get_role_scope_ids(c, admin_user, "faculty"),
             get_role_scope_ids(c, admin_user, "department"),
             admin_user, userUnit[OwnerOf[i]], userDiv[OwnerOf[i]])

\* exclude_lower_level_pending that filters nothing
exclude_nothing(c, i) == TRUE

exclude_lower_level_pending(c, i) ==
    IF c.level = "faculty" THEN items[i].approval_status # "pending"
    ELSE IF c.level = "university" THEN
        /\ items[i].approval_status # "department_approved"
        /\ userUnit[OwnerOf[i]] # NoId
        /\ \/ items[i].approval_status # "pending"
           \/ UnitType[userUnit[OwnerOf[i]]] = "office"
    ELSE TRUE

\* get_scoped_item_or_none(...) is not None
get_scoped_item_or_none(c, i, actor, include_lower_pending) ==
    /\ items[i].row = "live"
    /\ filter_items_by_scope(c, i, actor)
    /\ ~include_lower_pending => exclude_lower_level_pending(c, i)

(***************************************************************************)
(* The generic listings: GET /admin/publications?status=...                *)
(***************************************************************************)
ALLOWED_STATUS_FILTERS == {"all", "pending", "approved", "returned"}

\* get_approved_statuses: APPROVED_STATUSES_BY_LEVEL of the effective level
get_approved_statuses(c) ==
    IF c.level = "department" THEN {"department_approved", "faculty_approved", "approved"}
    ELSE IF c.level = "faculty" THEN {"faculty_approved", "approved"}
    ELSE {"approved"}

\* the query of list_all_publications for a status filter other than pending keeps
\* the row of item i
list_all_publications(c, i, admin_user, status) ==
    /\ items[i].row = "live"
    /\ filter_items_by_scope(c, i, admin_user)
    /\ exclude_lower_level_pending(c, i)
    /\ status = "approved" => items[i].approval_status \in get_approved_statuses(c)
    /\ status = "returned" => items[i].approval_status = "returned"

(***************************************************************************)
(* Item rows and approval_logs rows                                        *)
(***************************************************************************)
\* a row that does not exist (not yet inserted, or deleted)
NoRow(state) ==
    [row |-> state, approval_status |-> "draft", is_approved |-> FALSE,
     approved_at |-> FALSE, approved_by |-> NoId, rejection_reason |-> Null,
     returned_at |-> FALSE, returned_by_level |-> NoId]

\* ApprovalLog(item_id, action, old_status, new_status, performed_by)
ApprovalLog(i, action, old_status, new_status, actor) ==
    [item_id |-> i, action |-> action, old_status |-> old_status,
     new_status |-> new_status, performed_by |-> actor]

\* _ACTION_MAP_BY_NEW_STATUS.get(new_status, "approve")
ACTION_MAP_BY_NEW_STATUS(new_status) ==
    IF new_status = "department_approved" THEN "department_approve"
    ELSE IF new_status = "faculty_approved" THEN "faculty_approve"
    ELSE IF new_status = "approved" THEN "university_approve"
    ELSE "approve"

\* the hook testing whether the status contains "approved" rather than equals it
sync_is_approved_substring(r) ==
    [r EXCEPT !.is_approved =
        (r.approval_status \in {"approved", "department_approved", "faculty_approved"})]

\* the before_insert / before_update hook of the three item tables
sync_is_approved(r) == [r EXCEPT !.is_approved = (r.approval_status = "approved")]

\* can_edit refusing approved items only
can_edit_unless_approved(r) == r.approval_status # "approved"

\* Publication.can_edit, Publication.can_delete
can_edit(r) == r.approval_status \in {"draft", "returned"}
can_delete(r) == r.approval_status \in {"draft", "returned"}

(***************************************************************************)
(* Executor: services/approval.py, "APPROVAL ACTIONS (DB-writing)"         *)
(***************************************************************************)
\* the keyword arguments that check_approval_chain, resolve_next_approval_status and
\* get_approval_action_level hand to the pure functions, p being the scope permissions
chain_context(current_status, item_owner, p) ==
    ApprovalContext(current_status, is_office_user(item_owner), p.u, p.f, p.d,
                    ~has_department_admin_for_owner(item_owner),
                    ~has_faculty_admin_for_owner(item_owner))

check_approval_chain(c, current_status, item_owner, admin_user) ==
    can_approve(chain_context(current_status, item_owner,
                              get_scope_permissions(c, admin_user, item_owner)))

resolve_next_approval_status(c, current_status, item_owner, admin_user) ==
    next_status(chain_context(current_status, item_owner,
                              get_scope_permissions(c, admin_user, item_owner)))

get_approval_action_level(c, current_status, item_owner, admin_user) ==
    action_level(chain_context(current_status, item_owner,
                               get_scope_permissions(c, admin_user, item_owner)))

\* approval_can_return on the scope permissions p of a non-office owner
can_return_scoped(p) == approval_can_return(FALSE, FALSE, p.u, p.f, p.d)

\* can_return_item without the office branch
can_return_item_no_office(c, item_owner, admin_user) ==
    can_return_scoped(get_scope_permissions(c, admin_user, item_owner))

can_return_item(c, item_owner, admin_user) ==
    IF is_office_user(item_owner) THEN
        approval_can_return(TRUE, has_university_access(c, admin_user), FALSE, FALSE, FALSE)
    ELSE can_return_scoped(get_scope_permissions(c, admin_user, item_owner))

\* ApprovalActionResult(ok=False): nothing assigned, nothing added to the session
Refused(r) == [ok |-> FALSE, row |-> r, entries |-> <<>>]

\* the approve branch with old_status read after item.approval_status is assigned
approve_to_late_old_status(r, i, actor, old_status, new_status) ==
    [ok |-> TRUE,
     row |-> IF new_status = "approved"
             THEN [r EXCEPT !.approval_status = new_status, !.rejection_reason = Null,
                            !.returned_at = FALSE, !.is_approved = TRUE,
                            !.approved_at = TRUE, !.approved_by = actor]
             ELSE [r EXCEPT !.approval_status = new_status, !.rejection_reason = Null,
                            !.returned_at = FALSE],
     entries |-> <<ApprovalLog(i, ACTION_MAP_BY_NEW_STATUS(new_status),
                               new_status, new_status, actor)>>]

\* the approve branch once check_approval_chain has passed
approve_to(r, i, actor, old_status, new_status) ==
    [ok |-> TRUE,
     row |-> IF new_status = "approved"
             THEN [r EXCEPT !.approval_status = new_status, !.rejection_reason = Null,
                            !.returned_at = FALSE, !.is_approved = TRUE,
                            !.approved_at = TRUE, !.approved_by = actor]
             ELSE [r EXCEPT !.approval_status = new_status, !.rejection_reason = Null,
                            !.returned_at = FALSE],
     entries |-> <<ApprovalLog(i, ACTION_MAP_BY_NEW_STATUS(new_status),
                               old_status, new_status, actor)>>]

\* the reject branch
reject_to_pending(r, i, actor, old_status) ==
    [ok |-> TRUE,
     row |-> [r EXCEPT !.is_approved = FALSE, !.approval_status = "pending",
                       !.approved_at = FALSE, !.approved_by = NoId,
                       !.rejection_reason = Null, !.returned_at = FALSE,
                       !.returned_by_level = NoId],
     entries |-> <<ApprovalLog(i, "reject", old_status, "pending", actor)>>]

\* the return branch once its three tests have passed
return_to_owner(c, r, i, actor, old_status, reason) ==
    [ok |-> TRUE,
     row |-> [r EXCEPT !.is_approved = FALSE, !.approval_status = "returned",
                       !.rejection_reason = reason, !.returned_at = TRUE,
                       !.approved_at = FALSE, !.approved_by = NoId,
                       !.returned_by_level = effective_admin_level(c)],
     entries |-> <<ApprovalLog(i, "return", old_status, "returned", actor)>>]

\* apply_approval_action(item=r, action, actor, reason): r is the row as the request
\* loaded it; the result carries the row to flush and the log rows added
apply_approval_action(c, r, i, action, actor, reason) ==
    IF action = "approve" THEN
        IF ~check_approval_chain(c, r.approval_status, OwnerOf[i], actor) THEN Refused(r)
        ELSE approve_to(r, i, actor, StatusOrPending(r.approval_status),
                        resolve_next_approval_status(
                            c, StatusOrPending(r.approval_status), OwnerOf[i], actor))
    ELSE IF action = "reject" THEN
        reject_to_pending(r, i, actor, StatusOrPending(r.approval_status))
    ELSE IF action = "return" THEN
        IF strip(reason) = "" THEN Refused(r)
        ELSE IF StatusOrPending(r.approval_status) = "approved" THEN Refused(r)
        ELSE IF ~can_return_item(c, OwnerOf[i], actor) THEN Refused(r)
        ELSE return_to_owner(c, r, i, actor, StatusOrPending(r.approval_status),
                             strip(reason))
    ELSE Refused(r)

\* apply_approval_action_by_id: scoped fetch, then the executor
apply_approval_action_by_id(c, i, action, actor, reason, include_lower_pending) ==
    IF ~get_scoped_item_or_none(c, i, actor, include_lower_pending) THEN Refused(items[i])
    ELSE apply_approval_action(c, items[i], i, action, actor, reason)

(***************************************************************************)
(* Route decorators: blueprints/admin/helpers.py                           *)
(***************************************************************************)
\* @login_required: Flask-Login refuses a user whose is_active is false
login_required(u) == userActive[u]

\* @admin_required lets the request through
admin_required(u) == userActive[u] /\ ~sessUserMode[u] /\ is_admin(u)

\* @admin_level_required(min_level) reaches its level test
admin_level_reached(u) == userActive[u] /\ ~sessUserMode[u]

\* the level test passing for every admin level, whatever min_level asks
admin_level_required_any_admin(c, min_level) ==
    ADMIN_LEVEL_HIERARCHY[effective_admin_level(c)] >= ADMIN_LEVEL_HIERARCHY["department"]

\* the level test of @admin_level_required(min_level)
admin_level_required(c, min_level) ==
    ADMIN_LEVEL_HIERARCHY[effective_admin_level(c)] >= ADMIN_LEVEL_HIERARCHY[min_level]


(***************************************************************************)
(* Initial state: the seeded installation.  One university admin (u2), a  *)
(* lecturer u1 placed in division D1 of faculty F1, no items, no log.      *)
(***************************************************************************)
UniversityRole(u) == [user |-> u, level |-> "university", unit |-> NoId, div |-> NoId]

NoContext == ApprovalContext(Null, FALSE, FALSE, FALSE, FALSE, FALSE, FALSE)
NoDecision == [ok |-> FALSE, next |-> Null, level |-> NoId, ret |-> FALSE, done |-> FALSE]
\* a request slot with no approve request running in it
NoRequest ==
    [pc |-> "idle", actor |-> NoId, item |-> NoId, row |-> NoRow("none"),
     context |-> effective_context(TRUE, NoRole, NoId), seen |-> 0]

\* the request slots of the concurrent specification
Requests == {"r1", "r2"}

Init ==
    /\ userUnit = [u \in Users |-> IF u = "u1" THEN "F1" ELSE NoId]
    /\ userDiv = [u \in Users |-> IF u = "u1" THEN "D1" ELSE NoId]
    /\ userActive = [u \in Users |-> TRUE]
    /\ roles = [k \in RoleKeys |-> IF k = UniversityRole("u2") THEN "active" ELSE "absent"]
    /\ sessRole = [u \in Users |-> NoRole]
    /\ sessUserMode = [u \in Users |-> FALSE]
    /\ items = [i \in Items |-> NoRow("none")]
    /\ log = <<>>
    /\ req = [r \in Requests |-> NoRequest]
    /\ ctx = NoContext
    /\ dec = NoDecision

(***************************************************************************)
(* Owner routes: blueprints/publications/routes.py (projects and          *)
(* activities have the same three routes)                                  *)
(***************************************************************************)
\* POST /publications/add with action = submit | save_draft
add_publication(i, action) ==
    /\ login_required(OwnerOf[i])
    /\ items[i].row = "none"
    /\ items' = [items EXCEPT ![i] = sync_is_approved(
                    [NoRow("live") EXCEPT !.approval_status =
                        IF action = "submit" THEN "pending" ELSE "draft"])]
    /\ UNCHANGED <<orgVars, sessVars, log, req, pureVars>>

\* the edit route with save_draft setting draft whatever the current status
edit_publication_draft_always(i, action) ==
    /\ login_required(OwnerOf[i])
    /\ items[i].row = "live"
    /\ can_edit(items[i])
    /\ items' = [items EXCEPT ![i] = sync_is_approved(
                    IF action = "submit"
                    THEN [@ EXCEPT !.approval_status = "pending",
                                   !.rejection_reason = Null, !.returned_at = FALSE]
                    ELSE [@ EXCEPT !.approval_status = "draft"])]
    /\ UNCHANGED <<orgVars, sessVars, log, req, pureVars>>

\* POST /publications/edit/<id> with action = submit | save_draft
edit_publication(i, action) ==
    /\ login_required(OwnerOf[i])
    /\ items[i].row = "live"
    /\ can_edit(items[i])
    /\ items' = [items EXCEPT ![i] = sync_is_approved(
                    IF action = "submit"
                    THEN [@ EXCEPT !.approval_status = "pending",
                                   !.rejection_reason = Null, !.returned_at = FALSE]
                    ELSE IF @.approval_status # "returned"
                         THEN [@ EXCEPT !.approval_status = "draft"]
                         ELSE @)]
    /\ UNCHANGED <<orgVars, sessVars, log, req, pureVars>>

\* POST /publications/delete/<id>
delete_publication(i) ==
    /\ login_required(OwnerOf[i])
    /\ items[i].row = "live"
    /\ can_delete(items[i])
    /\ items' = [items EXCEPT ![i] = NoRow("deleted")]
    /\ UNCHANGED <<orgVars, sessVars, log, req, pureVars>>

(***************************************************************************)
(* Admin approval routes: blueprints/admin/approval.py.  A request that   *)
(* reaches get_effective_context leaves get_act_as_role's session value.   *)
(***************************************************************************)
\* the commit of a route that ran the executor once on item i
CommitResult(a, i, res) ==
    /\ sessRole' = [sessRole EXCEPT ![a] = SessionAfter(a)]
    /\ items' = IF res.ok THEN [items EXCEPT ![i] = sync_is_approved(res.row)] ELSE items
    /\ log' = log \o res.entries
    /\ UNCHANGED <<orgVars, sessUserMode, req, pureVars>>

\* POST /admin/publications/<id>/approve
approve_publication(a, i) ==
    /\ admin_required(a)
    /\ CommitResult(a, i, apply_approval_action_by_id(
                              get_effective_context(a), i, "approve", a, "", TRUE))

\* reject_publication under the request's effective context c
reject_under(c, a, i) ==
    CommitResult(a, i,
        IF admin_level_required(c, "university")
        THEN apply_approval_action_by_id(c, i, "reject", a, "", FALSE)
        ELSE Refused(items[i]))

\* POST /admin/publications/<id>/reject
reject_publication(a, i) ==
    /\ admin_level_reached(a)
    /\ reject_under(get_effective_context(a), a, i)

\* POST /admin/publications/<id>/return with form field reason
return_publication(a, i, reason) ==
    /\ admin_required(a)
    /\ CommitResult(a, i, apply_approval_action_by_id(
                              get_effective_context(a), i, "return", a, reason, FALSE))

(***************************************************************************)
(* Act-as switch: blueprints/admin/dashboard.py                            *)
(***************************************************************************)
\* what the act-as form of user u can post: role_id 0, mode auto, or the id of a
\* role of u with another mode
ActAsChoices(u) ==
    {[mode |-> "user", role |-> NoRole], [mode |-> "auto", role |-> NoRole]}
    \cup {[mode |-> "role", role |-> k] : k \in {j \in RoleKeys : j.user = u}}

\* POST /admin/act-as
set_act_as_role(u, choice) ==
    /\ login_required(u)
    /\ is_admin(u)
    /\ IF choice.mode = "user" THEN
           /\ sessRole' = [sessRole EXCEPT ![u] = NoRole]
           /\ sessUserMode' = [sessUserMode EXCEPT ![u] = TRUE]
       ELSE
           /\ sessUserMode' = [sessUserMode EXCEPT ![u] = FALSE]
           /\ sessRole' = [sessRole EXCEPT ![u] =
                  IF choice.mode = "auto" THEN NoRole
                  ELSE IF choice.role \notin ActiveRolesOf(u) THEN NoRole
                  ELSE choice.role]
    /\ UNCHANGED <<orgVars, items, log, req, pureVars>>


(***************************************************************************)
(* Placement of users: User.validate_org_structure, the profile route and *)
(* the admin edit_user route                                               *)
(***************************************************************************)
\* the before_update hook of User with validate_org_structure: whether the flush
\* goes through, and the division_id it stores
validate_org_structure(u, unit, div) ==
    IF unit = NoId /\ div = NoId THEN [ok |-> TRUE, div |-> div]
    ELSE IF unit = NoId THEN [ok |-> highest_admin_level(u) = "university", div |-> div]
    ELSE IF UnitType[unit] = "office" THEN [ok |-> TRUE, div |-> NoId]
    ELSE IF div = NoId THEN [ok |-> FALSE, div |-> div]
    ELSE [ok |-> DivUnit[div] = unit, div |-> div]

\* the flush of a user row whose placement was assigned
flush_placement(u, unit, hook) ==
    /\ userUnit' = IF hook.ok THEN [userUnit EXCEPT ![u] = unit] ELSE userUnit
    /\ userDiv' = IF hook.ok THEN [userDiv EXCEPT ![u] = hook.div] ELSE userDiv

\* POST /auth/profile: a user edits their own placement
update_profile(u, unit, div) ==
    /\ login_required(u)
    /\ unit # NoId /\ UnitType[unit] = "faculty" => div # NoId
    /\ div # NoId /\ unit # NoId => DivUnit[div] = unit
    /\ flush_placement(u, unit, validate_org_structure(u, unit, div))
    /\ UNCHANGED <<userActive, roles, sessVars, items, log, req, pureVars>>

\* filter_users_by_scope(User.query, admin_user) keeps the row of target
filter_users_by_scope(c, target, admin_user) ==
    in_scope(c, get_role_scope_ids(c, admin_user, "faculty"),
             get_role_scope_ids(c, admin_user, "department"),
             admin_user, userUnit[target], userDiv[target])

is_user_in_scope(c, target, admin_user) == filter_users_by_scope(c, target, admin_user)

can_view_user_scoped(c, admin_user, target) ==
    /\ is_admin(admin_user)
    /\ ~sessUserMode[admin_user]
    /\ is_user_in_scope(c, target, admin_user)
    /\ ADMIN_LEVEL_HIERARCHY[effective_admin_level(c)] > 0
    /\ is_admin(target) =>
           ADMIN_LEVEL_HIERARCHY[highest_admin_level(target)]
               <= ADMIN_LEVEL_HIERARCHY[effective_admin_level(c)]

can_manage_user_scoped(c, admin_user, target) ==
    /\ can_view_user_scoped(c, admin_user, target)
    /\ is_admin(target) =>
           ADMIN_LEVEL_HIERARCHY[highest_admin_level(target)]
               < ADMIN_LEVEL_HIERARCHY[effective_admin_level(c)]

\* the assignment test passing for every level once the actor is at faculty level
can_assign_any_level(c, target_level) ==
    effective_admin_level(c) \in {"university", "faculty"}

can_assign_admin_level_scoped(c, target_level) ==
    IF effective_admin_level(c) = "university"
        THEN target_level \in {"university", "faculty", "department", "none"}
    ELSE IF effective_admin_level(c) = "faculty"
        THEN target_level \in {"faculty", "department", "none"}
    ELSE FALSE

\* build_scope_filter_data: the org units in scope, from the scope ids
scope_org_units(c, fids, division_scope_ids, admin_user) ==
    IF c.level = "university" THEN Units
    ELSE IF c.level = "faculty" THEN
        IF fids # {} THEN fids
        ELSE IF userUnit[admin_user] # NoId THEN {userUnit[admin_user]}
        ELSE {}
    ELSE IF c.level = "department" THEN {DivUnit[d] : d \in division_scope_ids}
    ELSE {}

\* build_scope_filter_data: division_scope_ids
scope_division_ids(c, dids, admin_user) ==
    IF c.level # "department" THEN {}
    ELSE IF dids # {} THEN dids
    ELSE IF userDiv[admin_user] # NoId THEN {userDiv[admin_user]}
    ELSE {}

\* build_scope_filter_data: the divisions in scope
scope_divisions(c, org_units, division_scope_ids) ==
    {d \in Divisions :
        /\ division_scope_ids # {} => d \in division_scope_ids
        /\ c.level # "university" => DivUnit[d] \in org_units}

\* build_scope_filter_data(admin_user): ids of the org units and divisions in scope
build_scope_filter_data(c, admin_user) ==
    [org_units |->
         scope_org_units(c, get_role_scope_ids(c, admin_user, "faculty"),
             scope_division_ids(c, get_role_scope_ids(c, admin_user, "department"),
                                admin_user),
             admin_user),
     divisions |->
         scope_divisions(c,
             scope_org_units(c, get_role_scope_ids(c, admin_user, "faculty"),
                 scope_division_ids(c, get_role_scope_ids(c, admin_user, "department"),
                                    admin_user),
                 admin_user),
             scope_division_ids(c, get_role_scope_ids(c, admin_user, "department"),
                                admin_user))]

\* the division_id edit_user assigns for the posted (unit, div)
edit_user_division(unit, div) ==
    IF unit = NoId THEN NoId
    ELSE IF UnitType[unit] = "office" THEN NoId
    ELSE div

\* the form checks of edit_user pass; scope is build_scope_filter_data
edit_user_form(c, scope, a, target, unit, div) ==
    /\ is_user_in_scope(c, target, a)
    /\ can_manage_user_scoped(c, a, target)
    /\ unit = NoId => highest_admin_level(target) = "university"
    /\ c.level # "university" =>
           /\ c.level = "department" => div # NoId
           /\ unit # NoId => unit \in scope.org_units
           /\ div # NoId => div \in scope.divisions
    /\ unit # NoId /\ UnitType[unit] = "faculty" /\ div = NoId
           => highest_admin_level(target) = "university"
    /\ unit # NoId /\ edit_user_division(unit, div) # NoId
           => DivUnit[edit_user_division(unit, div)] = unit

\* edit_user under the request's effective context c
edit_user_under(c, a, target, unit, div) ==
    IF edit_user_form(c, build_scope_filter_data(c, a), a, target, unit, div)
    THEN flush_placement(target, unit,
             validate_org_structure(target, unit, edit_user_division(unit, div)))
    ELSE UNCHANGED <<userUnit, userDiv>>

\* POST /admin/users/<id>/edit
edit_user(a, target, unit, div) ==
    /\ admin_required(a)
    /\ sessRole' = [sessRole EXCEPT ![a] = SessionAfter(a)]
    /\ edit_user_under(get_effective_context(a), a, target, unit, div)
    /\ UNCHANGED <<userActive, roles, sessUserMode, items, log, req, pureVars>>


(***************************************************************************)
(* Admin roster: blueprints/admin/admin_roles.py, blueprints/admin/users.py *)
(***************************************************************************)
\* rows of admin_roles that exist, active or not
ExistingRoles == {k \in RoleKeys : roles[k] # "absent"}

\* the scope checks of add_admin for an actor below university level
add_admin_scope(k, fids, dids) ==
    /\ k.level = "department" =>
           /\ dids # {} => k.div \in dids
           /\ fids # {} => DivUnit[k.div] \in fids
    /\ k.level = "faculty" => (fids # {} => k.unit \in fids)

\* the form checks of add_admin pass for the grant k
add_admin_form(c, a, k) ==
    /\ filter_users_by_scope(c, k.user, a)
    /\ can_assign_admin_level_scoped(c, k.level)
    /\ effective_admin_level(c) # "university" =>
           add_admin_scope(k, get_role_scope_ids(c, a, "faculty"),
                           get_role_scope_ids(c, a, "department"))
    /\ k.level = "department" => userDiv[k.user] = k.div
    /\ k.level = "faculty" =>
           \/ userUnit[k.user] = k.unit
           \/ userDiv[k.user] # NoId /\ DivUnit[userDiv[k.user]] = k.unit

\* AdminRole.grant_role: a new row, an inactive row made active, or nothing
grant_role(k) == IF roles[k] = "active" THEN roles ELSE [roles EXCEPT ![k] = "active"]

\* add_admin under the request's effective context c
add_admin_under(c, a, k) ==
    roles' = IF admin_level_required(c, "faculty") /\ add_admin_form(c, a, k)
             THEN grant_role(k) ELSE roles

\* POST /admin/admins/add
add_admin(a, k) ==
    /\ admin_level_reached(a)
    /\ sessRole' = [sessRole EXCEPT ![a] = SessionAfter(a)]
    /\ add_admin_under(get_effective_context(a), a, k)
    /\ UNCHANGED <<userUnit, userDiv, userActive, sessUserMode, items, log, req, pureVars>>

\* the fields posted to /admin/admins/add; NoId stands for a field left empty
AdminForms ==
    [user : Users, role_level : Levels,
     organization_unit_id : Units \cup {NoId}, division_id : Divisions \cup {NoId}]

\* the row AdminRole.grant_role is asked to store for a posted form
grant_role_target(form) ==
    [user |-> form.user, level |-> form.role_level,
     unit |-> IF form.role_level \in {"faculty", "department"}
              THEN form.organization_unit_id ELSE NoId,
     div |-> IF form.role_level = "department" THEN form.division_id ELSE NoId]

\* _validate_admin_role_scope on the row to insert: whether the flush goes through,
\* and the row as the hook leaves it
validate_admin_role_scope(target) ==
    IF target.level = "university" THEN
        [ok |-> target.unit = NoId /\ target.div = NoId, row |-> target]
    ELSE IF target.level = "faculty" THEN
        [ok |-> target.unit # NoId /\ target.div = NoId, row |-> target]
    ELSE IF target.div = NoId THEN [ok |-> FALSE, row |-> target]
    ELSE IF target.unit # NoId /\ DivUnit[target.div] # target.unit
        THEN [ok |-> FALSE, row |-> target]
    ELSE [ok |-> TRUE, row |-> [target EXCEPT !.unit = DivUnit[target.div]]]

\* the scope fields the route asks for before anything else
add_admin_fields_given(form) ==
    /\ form.role_level = "faculty" => form.organization_unit_id # NoId
    /\ form.role_level = "department" => form.division_id # NoId

\* POST /admin/admins/add with any posted fields: a form without its scope field, or
\* whose row the hook refuses, stores nothing
add_admin_post(a, form) ==
    IF /\ add_admin_fields_given(form)
       /\ validate_admin_role_scope(grant_role_target(form)).ok
    THEN add_admin(a, validate_admin_role_scope(grant_role_target(form)).row)
    ELSE /\ admin_level_reached(a)
         /\ sessRole' = [sessRole EXCEPT ![a] = SessionAfter(a)]
         /\ UNCHANGED <<orgVars, sessUserMode, items, log, req, pureVars>>

\* the checks shared by toggle_admin_role and delete_admin_role
role_change_allowed(c, a, k) ==
    /\ admin_level_required(c, "faculty")
    /\ is_user_in_scope(c, k.user, a)
    /\ can_assign_admin_level_scoped(c, k.level)

\* remaining admins of the role's scope, the role and its holder left out
remaining_admins(k) ==
    count_effective_admins_by_scope(k.level, k.unit, k.div, k, k.user)

\* POST /admin/admins/roles/<id>/toggle
toggle_admin_role(a, k) ==
    /\ admin_level_reached(a)
    /\ roles[k] # "absent"
    /\ sessRole' = [sessRole EXCEPT ![a] = SessionAfter(a)]
    /\ roles' = IF /\ role_change_allowed(get_effective_context(a), a, k)
                   /\ roles[k] = "active" => remaining_admins(k) > 0
                THEN [roles EXCEPT ![k] = IF @ = "active" THEN "inactive" ELSE "active"]
                ELSE roles
    /\ UNCHANGED <<userUnit, userDiv, userActive, sessUserMode, items, log, req, pureVars>>

\* the rows and sessions after delete_admin_role; a session that names the deleted
\* row keeps an id that no row will carry again
delete_role_commit(a, k, done, after) ==
    /\ roles' = IF done THEN [roles EXCEPT ![k] = "absent"] ELSE roles
    /\ sessRole' = IF done
                   THEN [u \in Users |->
                            IF u = a THEN (IF after = k THEN StaleRole ELSE after)
                            ELSE IF sessRole[u] = k THEN StaleRole ELSE sessRole[u]]
                   ELSE [sessRole EXCEPT ![a] = after]

\* POST /admin/admins/roles/<id>/delete
delete_admin_role(a, k) ==
    /\ admin_level_reached(a)
    /\ roles[k] # "absent"
    /\ delete_role_commit(a, k,
           role_change_allowed(get_effective_context(a), a, k) /\ remaining_admins(k) > 0,
           SessionAfter(a))
    /\ UNCHANGED <<userUnit, userDiv, userActive, sessUserMode, items, log, req, pureVars>>

\* POST /admin/users/<id>/toggle-active
toggle_user_active(a, target) ==
    /\ admin_level_reached(a)
    /\ sessRole' = [sessRole EXCEPT ![a] = SessionAfter(a)]
    /\ userActive' =
           IF /\ admin_level_required(get_effective_context(a), "university")
              /\ target # a
              /\ userActive[target] /\ has_admin_role(target, "university", NoId, NoId)
                     => count_effective_admins_by_scope("university", NoId, NoId,
                                                        NoRole, target) > 0
           THEN [userActive EXCEPT ![target] = ~@]
           ELSE userActive
    /\ UNCHANGED <<userUnit, userDiv, roles, sessUserMode, items, log, req, pureVars>>

(***************************************************************************)
(* The application: every request is one step                              *)
(***************************************************************************)
FormActions == {"submit", "save_draft"}

\* (organization_unit_id, division_id) as the placement forms post them
Placements ==
    {[unit |-> NoId, div |-> NoId], [unit |-> "O1", div |-> NoId]}
    \cup {[unit |-> DivUnit[d], div |-> d] : d \in Divisions}

\* the grants asked of add_admin in the sequential specification: the staff is u2,
\* u1 is a lecturer
StaffGrants == {k \in RoleKeys : k.user = "u2"}

Next ==
    \/ \E i \in Items, action \in FormActions : add_publication(i, action)
    \/ \E i \in Items, action \in FormActions : edit_publication(i, action)
    \/ \E i \in Items : delete_publication(i)
    \/ \E a \in Users, i \in Items : approve_publication(a, i) /\ Len(log') <= MaxLog
    \/ \E a \in Users, i \in Items : reject_publication(a, i) /\ Len(log') <= MaxLog
    \/ \E a \in Users, i \in Items, reason \in Reasons :
           return_publication(a, i, reason) /\ Len(log') <= MaxLog
    \/ \E u \in Users : \E choice \in ActAsChoices(u) : set_act_as_role(u, choice)
    \/ \E u \in Users, p \in Placements : update_profile(u, p.unit, p.div)
    \/ \E a \in Users, t \in Users, p \in Placements : edit_user(a, t, p.unit, p.div)
    \/ \E a \in Users, k \in StaffGrants :
           add_admin(a, k) /\ Cardinality({j \in RoleKeys : roles'[j] # "absent"}) <= MaxRoles
    \/ \E a \in Users, t \in Users : toggle_user_active(a, t)

Spec == Init /\ [][Next]_vars

(***************************************************************************)
(* The staffed chain: the owner u1 sits in division D1 of faculty F1, and *)
(* every level has an active admin.  Who holds which role, and where the  *)
(* other user sits, is any arrangement add_admin and the placement routes *)
(* can produce; placements and roster then stay as they are.              *)
(***************************************************************************)
\* the role rows of the chain of D1: university, faculty of F1, department of D1
ChainKeys == {k \in RoleKeys : k.unit # "O1"}

\* the admin_roles tables in which each level of that chain has one active admin
StaffedRosters ==
    {ro \in [RoleKeys -> {"active", "absent"}] :
        /\ \A k \in RoleKeys \ ChainKeys : ro[k] = "absent"
        /\ \A l \in Levels :
               Cardinality({k \in ChainKeys : k.level = l /\ ro[k] = "active"}) = 1}

InitChain ==
    /\ \E p \in Placements :
           /\ userUnit = [u \in Users |-> IF u = "u1" THEN "F1" ELSE p.unit]
           /\ userDiv = [u \in Users |-> IF u = "u1" THEN "D1" ELSE p.div]
    /\ userActive = [u \in Users |-> TRUE]
    /\ roles \in StaffedRosters
    /\ sessRole = [u \in Users |-> NoRole]
    /\ sessUserMode = [u \in Users |-> FALSE]
    /\ items = [i \in Items |-> NoRow("none")]
    /\ log = <<>>
    /\ req = [r \in Requests |-> NoRequest]
    /\ ctx = NoContext
    /\ dec = NoDecision

NextChain ==
    \/ \E i \in Items, action \in FormActions : add_publication(i, action)
    \/ \E i \in Items, action \in FormActions : edit_publication(i, action)
    \/ \E a \in Users, i \in Items : approve_publication(a, i) /\ Len(log') <= MaxChainLog
    \/ \E a \in Users, i \in Items, reason \in Reasons :
           return_publication(a, i, reason) /\ Len(log') <= MaxChainLog
    \/ \E u \in Users : \E choice \in ActAsChoices(u) : set_act_as_role(u, choice)

SpecChain == InitChain /\ [][NextChain]_vars

(***************************************************************************)
(* The admin roster on its own: grants, revocations, deactivations and    *)
(* the act-as switch, with both users as staff                             *)
(***************************************************************************)
NextRoster ==
    \/ \E a \in Users, form \in AdminForms :
           /\ add_admin_post(a, form)
           /\ Cardinality({j \in RoleKeys : roles'[j] # "absent"}) <= MaxRoles
    \/ \E a \in Users, k \in RoleKeys : toggle_admin_role(a, k)
    \/ \E a \in Users, k \in RoleKeys : delete_admin_role(a, k)
    \/ \E a \in Users, t \in Users : toggle_user_active(a, t)
    \/ \E u \in Users : \E choice \in ActAsChoices(u) : set_act_as_role(u, choice)
    \/ \E u \in Users, p \in Placements : update_profile(u, p.unit, p.div)

SpecRoster == Init /\ [][NextRoster]_vars

(***************************************************************************)
(* Concurrent approve requests.  Each request has its own database        *)
(* session: it loads the item row (get_scoped_item_or_none), and later    *)
(* runs apply_approval_action on the row it loaded and commits.  No row   *)
(* lock or version column guards the item tables.  A slot also remembers  *)
(* how many approval_logs rows existed when it loaded the item.           *)
(***************************************************************************)
\* the approve request of actor a on item i, up to the scoped fetch, under context c
begin_under(c, r, a, i) ==
    req' = IF get_scoped_item_or_none(c, i, a, TRUE)
           THEN [req EXCEPT ![r] = [pc |-> "loaded", actor |-> a, item |-> i,
                                    row |-> items[i], context |-> c, seen |-> Len(log)]]
           ELSE req

BeginApprove(r, a, i) ==
    /\ req[r].pc = "idle"
    /\ admin_required(a)
    /\ sessRole' = [sessRole EXCEPT ![a] = SessionAfter(a)]
    /\ begin_under(get_effective_context(a), r, a, i)
    /\ UNCHANGED <<orgVars, sessUserMode, items, log, pureVars>>

\* the UPDATE the session's flush issues: the columns whose value differs from the
\* loaded one
flush_changes(stored, loaded, new) ==
    [f \in DOMAIN stored |-> IF new[f] # loaded[f] THEN new[f] ELSE stored[f]]

\* db.session.commit() of the request in slot r, the executor having returned res
commit_request(r, res) ==
    /\ items' = IF res.ok
                THEN [items EXCEPT ![req[r].item] =
                         flush_changes(@, req[r].row, sync_is_approved(res.row))]
                ELSE items
    /\ log' = log \o res.entries
    /\ req' = [req EXCEPT ![r] = NoRequest]
    /\ UNCHANGED <<orgVars, sessVars, pureVars>>

\* the rest of the request in slot r: apply_approval_action on the loaded row
FinishApprove(r) ==
    /\ req[r].pc = "loaded"
    /\ commit_request(r, apply_approval_action(req[r].context, req[r].row, req[r].item,
                                               "approve", req[r].actor, ""))

\* no approve request is between its fetch and its commit
NoRequestRunning == \A r \in Requests : req[r].pc = "idle"

InitConc == Init

\* the roster and the act-as choice are changed between approve requests
NextConc ==
    \/ \E i \in Items, action \in FormActions : add_publication(i, action)
    \/ \E r \in Requests, a \in Users, i \in Items : BeginApprove(r, a, i)
    \/ \E r \in Requests : FinishApprove(r) /\ Len(log') <= MaxLog
    \/ \E u \in Users : \E choice \in ActAsChoices(u) :
           set_act_as_role(u, choice) /\ NoRequestRunning
    \/ \E a \in Users, k \in RoleKeys :
           /\ add_admin(a, k) /\ NoRequestRunning
           /\ Cardinality({j \in RoleKeys : roles'[j] # "absent"}) <= MaxRoles

SpecConc == InitConc /\ [][NextConc]_vars


(***************************************************************************)
(* Batch approval: POST /admin/approve-all.  The request lists the items   *)
(* awaiting the actor (filter_my_pending_items), runs apply_approval_action*)
(* with commit=False on each, and commits once after the loop.  In this    *)
(* specification req is the database session of the batch request: the    *)
(* rows it loaded, the rows as the executor has changed them, the          *)
(* approval_logs rows it has added, and the items still to be visited.    *)
(***************************************************************************)
\* the owner u1 has up to two items here
BatchItems == {"i1", "i2"}

\* every division of the units in org_unit_ids, with or without department admin
divisions_of_units(org_unit_ids) == {d \in Divisions : DivUnit[d] \in org_unit_ids}

\* the divisions of the units in org_unit_ids that have no department admin
missing_divisions(org_unit_ids) ==
    {d \in Divisions :
        /\ DivUnit[d] \in org_unit_ids
        /\ count_effective_admins_by_scope("department", NoId, d, NoRole, NoId) = 0}

\* the non-office units that have no faculty admin
missing_org_units ==
    {f \in Units :
        /\ UnitType[f] # "office"
        /\ count_effective_admins_by_scope("faculty", f, NoId, NoRole, NoId) = 0}

\* the actor's scope ids at a level, falling back on the actor's own placement
my_scope_ids(ids, own) == IF ids # {} THEN ids ELSE IF own # NoId THEN {own} ELSE {}

\* the row of an item in status st, owned by a user placed in (unit, div), is in
\* filter_my_pending_items for an actor whose scopes are fids, dids
my_pending_row(c, fids, dids, st, unit, div) ==
    IF unit = NoId THEN FALSE
    ELSE IF c.level = "department" THEN
        st = "pending" /\ div \in dids /\ UnitType[unit] # "office"
    ELSE IF c.level = "faculty" THEN
        /\ fids # {}
        /\ unit \in fids
        /\ UnitType[unit] # "office"
        /\ \/ st = "department_approved"
           \/ st = "pending" /\ (div = NoId \/ div \in missing_divisions(fids))
    ELSE IF c.level = "university" THEN
        \/ st = "faculty_approved" /\ UnitType[unit] # "office"
        \/ st = "pending" /\ UnitType[unit] = "office"
        \/ st = "department_approved" /\ unit \in missing_org_units
        \/ /\ st = "pending"
           /\ unit \in missing_org_units
           /\ (div = NoId \/ div \in missing_divisions(missing_org_units))
    ELSE FALSE

\* filter_my_pending_items(query, model_class, admin_user) keeps the row of item i
filter_my_pending_items(c, i, admin_user) ==
    /\ items[i].row = "live"
    /\ my_pending_row(c,
           my_scope_ids(get_role_scope_ids(c, admin_user, "faculty"), userUnit[admin_user]),
           my_scope_ids(get_role_scope_ids(c, admin_user, "department"), userDiv[admin_user]),
           items[i].approval_status, userUnit[OwnerOf[i]], userDiv[OwnerOf[i]])

\* no batch request is running; count is the number the last batch reported
NoBatch ==
    [pc |-> "idle", actor |-> NoId, context |-> effective_context(TRUE, NoRole, NoId),
     batch |-> {}, todo |-> {}, loaded |-> [i \in BatchItems |-> NoRow("none")],
     rows |-> [i \in BatchItems |-> NoRow("none")], entries |-> <<>>, count |-> 0]

InitBatch ==
    /\ userUnit = [u \in Users |-> IF u = "u1" THEN "F1" ELSE NoId]
    /\ userDiv = [u \in Users |-> IF u = "u1" THEN "D1" ELSE NoId]
    /\ userActive = [u \in Users |-> TRUE]
    /\ roles = [k \in RoleKeys |-> IF k = UniversityRole("u2") THEN "active" ELSE "absent"]
    /\ sessRole = [u \in Users |-> NoRole]
    /\ sessUserMode = [u \in Users |-> FALSE]
    /\ items = [i \in BatchItems |-> NoRow("none")]
    /\ log = <<>>
    /\ req = NoBatch
    /\ ctx = NoContext
    /\ dec = NoDecision

\* the commit argument approve_all_pending passes to apply_approval_action
batch_commit_default == TRUE

batch_commit == FALSE

\* the session after S = filter_my_pending_items(...).all(), under context c
batch_loaded(c, a, S) ==
    [pc |-> "running", actor |-> a, context |-> c, batch |-> S, todo |-> S,
     loaded |-> [i \in BatchItems |-> items[i]], rows |-> [i \in BatchItems |-> items[i]],
     entries |-> <<>>, count |-> 0]

begin_batch_under(c, a) ==
    req' = batch_loaded(c, a, {i \in BatchItems : filter_my_pending_items(c, i, a)})

\* approve_all_pending up to the query of batch_approve
BeginBatch(a) ==
    /\ req.pc = "idle"
    /\ admin_required(a)
    /\ sessRole' = [sessRole EXCEPT ![a] = SessionAfter(a)]
    /\ begin_batch_under(get_effective_context(a), a)
    /\ UNCHANGED <<orgVars, sessUserMode, items, log, pureVars>>

\* the session s once the executor has returned res for item i
session_after(s, i, res) ==
    [s EXCEPT !.todo = @ \ {i},
              !.rows[i] = IF res.ok THEN res.row ELSE @,
              !.entries = @ \o res.entries,
              !.count = IF res.ok THEN @ + 1 ELSE @]

\* db.session.commit() on session s: the rows the flush writes, and the log
session_commit_items(s) ==
    [i \in BatchItems |->
        IF i \in s.batch
        THEN flush_changes(items[i], s.loaded[i], sync_is_approved(s.rows[i]))
        ELSE items[i]]

session_commit_log(s) == log \o s.entries

\* the session s after its commit, the transaction being over
session_committed(s) == [s EXCEPT !.loaded = s.rows, !.entries = <<>>]

\* one turn of the loop of batch_approve: res is what apply_approval_action returned
batch_approve(i, res, commit) ==
    /\ items' = IF commit THEN session_commit_items(session_after(req, i, res)) ELSE items
    /\ log' = IF commit THEN session_commit_log(session_after(req, i, res)) ELSE log
    /\ req' = IF commit THEN session_committed(session_after(req, i, res))
              ELSE session_after(req, i, res)
    /\ UNCHANGED <<orgVars, sessVars, pureVars>>

\* the loop of batch_approve reaches item i
BatchApprove(i) ==
    /\ req.pc = "running"
    /\ i \in req.todo
    /\ batch_approve(i, apply_approval_action(req.context, req.rows[i], i, "approve",
                                              req.actor, ""),
                     batch_commit)

\* db.session.commit() after the loops, and the flash of the count
CommitBatch ==
    /\ req.pc = "running"
    /\ req.todo = {}
    /\ items' = session_commit_items(req)
    /\ log' = session_commit_log(req)
    /\ req' = [NoBatch EXCEPT !.count = req.count]
    /\ UNCHANGED <<orgVars, sessVars, pureVars>>

\* single approve requests, act-as switches, grants and placement changes come
\* between batch requests; the owner submits at any time
NextBatch ==
    \/ \E i \in BatchItems, action \in FormActions : add_publication(i, action)
    \/ \E a \in Users : BeginBatch(a)
    \/ \E i \in BatchItems : BatchApprove(i) /\ Len(log') <= MaxBatchLog
    \/ CommitBatch /\ Len(log') <= MaxBatchLog
    \/ \E a \in Users, i \in BatchItems :
           approve_publication(a, i) /\ req.pc = "idle" /\ Len(log') <= MaxBatchLog
    \/ \E u \in Users : \E choice \in ActAsChoices(u) :
           set_act_as_role(u, choice) /\ req.pc = "idle"
    \/ \E a \in Users, k \in StaffGrants :
           /\ add_admin(a, k) /\ req.pc = "idle"
           /\ Cardinality({j \in RoleKeys : roles'[j] # "absent"}) <= MaxRoles
    \/ \E u \in Users, p \in Placements :
           update_profile(u, p.unit, p.div) /\ req.pc = "idle"

SpecBatch == InitBatch /\ [][NextBatch]_vars

(***************************************************************************)
(* The owner's dashboard: GET /dashboard sums the hours of the owner's     *)
(* items with calculate_total_research_hours                               *)
(***************************************************************************)
\* author_hours of calculate_publication_hours for the publications of the model:
\* i1 is a Q1 journal paper with four authors, the owner being first author
\* (1800 * (2/3) / 4 + 1800 / 6); i2 the same with the owner a middle author
PublicationAuthorHours == [i1 |-> 600, i2 |-> 300]

RECURSIVE SumHours(_, _)
\* sum(hours[i] for i in S)
SumHours(hours, S) ==
    IF S = {} THEN 0
    ELSE SumHours(hours, S \ {CHOOSE i \in S : TRUE}) + hours[CHOOSE i \in S : TRUE]

\* Publication.query.filter_by(user_id=u).all()
all_publications(u) == {i \in DOMAIN items : OwnerOf[i] = u /\ items[i].row = "live"}

\* calculate_total_research_hours(...)["total_hours"] for the publications given
calculate_total_research_hours(publications) ==
    SumHours(PublicationAuthorHours, publications)

\* total_summary["total_hours"] of the dashboard of user u
dashboard_total_hours(u) == calculate_total_research_hours(all_publications(u))

(***************************************************************************)
(* The pure decision functions on their own: every ApprovalContext is an  *)
(* initial state, and one step applies the four functions to it            *)
(***************************************************************************)
Contexts ==
    {ApprovalContext(s, office, cu, cf, cd, md, mf) :
        s \in Statuses, office \in BOOLEAN, cu \in BOOLEAN, cf \in BOOLEAN,
        cd \in BOOLEAN, md \in BOOLEAN, mf \in BOOLEAN}

InitPure ==
    /\ userUnit = [u \in Users |-> IF u = "u1" THEN "F1" ELSE NoId]
    /\ userDiv = [u \in Users |-> IF u = "u1" THEN "D1" ELSE NoId]
    /\ userActive = [u \in Users |-> TRUE]
    /\ roles = [k \in RoleKeys |-> IF k = UniversityRole("u2") THEN "active" ELSE "absent"]
    /\ sessRole = [u \in Users |-> NoRole]
    /\ sessUserMode = [u \in Users |-> FALSE]
    /\ items = [i \in Items |-> NoRow("none")]
    /\ log = <<>>
    /\ req = [r \in Requests |-> NoRequest]
    /\ ctx \in Contexts
    /\ dec = NoDecision

\* can_approve(ctx), next_status(ctx), action_level(ctx), can_return(ctx)
Decide ==
    /\ ~dec.done
    /\ dec' = [ok |-> can_approve(ctx), next |-> next_status(ctx),
               level |-> action_level(ctx), ret |-> can_return(ctx), done |-> TRUE]
    /\ UNCHANGED <<orgVars, sessVars, items, log, req, ctx>>

NextPure == Decide

SpecPure == InitPure /\ [][NextPure]_vars

(***************************************************************************)
(* The yearly summary of other activities on its own: any list of         *)
(* other-activity records and any year is an initial state, and one step  *)
(* applies calculate_yearly_other_activities_total.  The hours of the      *)
(* configuration are whole numbers, so is every sum, and round(x, 2)      *)
(* leaves them as they are.                                                *)
(***************************************************************************)
\* HoursConfig.other_activity_max_hours_per_year
other_activity_max_hours_per_year == 250

ActivityTypes ==
    {"student_research_university", "student_research_faculty", "team_training",
     "exhibition_product", "seminar"}

\* OtherActivity.quantity: 0 stands for a quantity of 0 or None
Quantities == {0, 1, 2, 4}

Years == {2024, 2025}

OtherActivities == [activity_type : ActivityTypes, quantity : Quantities, year : Years]

RECURSIVE ListsUpTo(_, _)
\* the lists of at most n elements of S
ListsUpTo(S, n) ==
    IF n = 0 THEN {<<>>}
    ELSE ListsUpTo(S, n - 1) \cup {Append(l, x) : l \in ListsUpTo(S, n - 1), x \in S}

\* calculate_other_activity_hours(activity_type, quantity)
calculate_other_activity_hours(activity_type, quantity) ==
    (IF activity_type = "student_research_university" THEN 75
     ELSE IF activity_type = "student_research_faculty" THEN 30
     ELSE IF activity_type = "team_training" THEN 75
     ELSE IF activity_type = "exhibition_product" THEN 45
     ELSE 0) * quantity

\* calculate_other_activity_hours_from_model: quantity or 1
calculate_other_activity_hours_from_model(activity) ==
    calculate_other_activity_hours(activity.activity_type,
                                   IF activity.quantity = 0 THEN 1 ELSE activity.quantity)

RECURSIVE total_raw_hours(_, _)
\* the loop over year_activities: the sum of the hours of the records of the year
total_raw_hours(activities, year) ==
    IF activities = <<>> THEN 0
    ELSE total_raw_hours(Tail(activities), year)
         + (IF Head(activities).year = year
            THEN calculate_other_activity_hours_from_model(Head(activities)) ELSE 0)

\* the raw sum handed on without the ceiling
uncapped_hours(raw) == raw

\* min(total_raw_hours, config.other_activity_max_hours_per_year)
capped_hours(raw) ==
    IF raw < other_activity_max_hours_per_year THEN raw
    ELSE other_activity_max_hours_per_year

\* the dict calculate_yearly_other_activities_total returns, without by_type
yearly_other_activities_summary(year, raw, count) ==
    [year |-> year, total_raw_hours |-> raw, capped_hours |-> capped_hours(raw),
     is_capped |-> raw > other_activity_max_hours_per_year, activity_count |-> count]

calculate_yearly_other_activities_total(activities, year) ==
    yearly_other_activities_summary(
        year, total_raw_hours(activities, year),
        Cardinality({n \in DOMAIN activities : activities[n].year = year}))

\* no summary computed yet: no year
NoSummary ==
    [year |-> 0, total_raw_hours |-> 0, capped_hours |-> 0, is_capped |-> FALSE,
     activity_count |-> 0]

InitHours ==
    /\ userUnit = [u \in Users |-> IF u = "u1" THEN "F1" ELSE NoId]
    /\ userDiv = [u \in Users |-> IF u = "u1" THEN "D1" ELSE NoId]
    /\ userActive = [u \in Users |-> TRUE]
    /\ roles = [k \in RoleKeys |-> IF k = UniversityRole("u2") THEN "active" ELSE "absent"]
    /\ sessRole = [u \in Users |-> NoRole]
    /\ sessUserMode = [u \in Users |-> FALSE]
    /\ items = [i \in Items |-> NoRow("none")]
    /\ log = <<>>
    /\ req = [r \in Requests |-> NoRequest]
    /\ ctx \in [activities : ListsUpTo(OtherActivities, MaxActivities), year : Years]
    /\ dec = NoSummary

\* calculate_yearly_other_activities_total(ctx.activities, ctx.year)
Summarize ==
    /\ dec = NoSummary
    /\ dec' = calculate_yearly_other_activities_total(ctx.activities, ctx.year)
    /\ UNCHANGED <<orgVars, sessVars, items, log, req, ctx>>

NextHours == Summarize

SpecHours == InitHours /\ [][NextHours]_vars

(***************************************************************************)
(* The hours engine on single records: hours_calculator.py.  The code      *)
(* computes in floating point; here an un-rounded figure is the exact      *)
(* fraction num/den of an hour, and a figure the code has rounded with     *)
(* round(x, 2) is a whole number of hundredths of an hour.  Money is in    *)
(* thousandths of the code's unit (a billion dong), point scores are in    *)
(* hundredths.  The string "None" and the number NoNumber stand for None.  *)
(***************************************************************************)
NoNumber == 0 - 1

Frac(n, d) == [num |-> n, den |-> d]

FracAdd(x, y) == Frac(x.num * y.den + y.num * x.den, x.den * y.den)

FracMul(x, n, d) == Frac(x.num * n, x.den * d)

\* round(x, 2) for x >= 0, in hundredths of an hour (half-way cases round to even)
round2(x) ==
    LET q == (100 * x.num) \div x.den
        r == (100 * x.num) % x.den
    IN IF 2 * r > x.den \/ (2 * r = x.den /\ q % 2 = 1) THEN q + 1 ELSE q

\* value or default, for numbers: None and 0 give the default
or_number(value, default) == IF value = NoNumber \/ value = 0 THEN default ELSE value

\* value or default, for strings: None gives the default
or_string(value, default) == IF value = "None" THEN default ELSE value

\* HoursConfig, Table 1 and the project rows of Table 2
DEFAULT_CONFIG ==
    [hours_journal_wos_scopus_q1_q2 |-> 1800,
     hours_journal_wos_scopus_q3_q4 |-> 1400,
     hours_journal_vnu_special |-> 900,
     hours_journal_rev |-> 900,
     hours_journal_international_reputable |-> 900,
     hours_journal_domestic_gte_1 |-> 800,
     hours_journal_domestic_gte_05 |-> 600,
     hours_journal_domestic_lt_05 |-> 300,
     hours_conference_wos_scopus |-> 900,
     hours_conference_international |-> 600,
     hours_conference_national |-> 500,
     hours_monograph_international |-> 2700,
     hours_monograph_domestic |-> 1500,
     hours_textbook_international |-> 1800,
     hours_textbook_domestic |-> 900,
     hours_book_chapter_reputable |-> 1200,
     hours_book_chapter_international |-> 900,
     hours_patent_international |-> 3000,
     hours_patent_vietnam |-> 1800,
     hours_utility_solution |-> 1200,
     hours_award_international |-> 1800,
     hours_award_national |-> 1200,
     hours_exhibition_international |-> 900,
     hours_exhibition_national |-> 600,
     hours_exhibition_provincial |-> 400,
     hours_project_national_total |-> 1000,
     hours_project_national_leader |-> 500,
     hours_project_national_secretary |-> 250,
     hours_project_national_member |-> 250,
     hours_project_vnu_total |-> 800,
     hours_project_vnu_leader |-> 400,
     hours_project_vnu_secretary |-> 200,
     hours_project_vnu_member |-> 200,
     hours_project_university_total |-> 300,
     hours_project_university_leader |-> 300,
     cooperation_base_hours |-> 100,
     cooperation_multiplier |-> 1000]

\* the publication types whose branch of get_base_hours reads one field of the configuration
FlatTypeHours ==
    [journal_vnu_special |-> DEFAULT_CONFIG.hours_journal_vnu_special,
     journal_rev |-> DEFAULT_CONFIG.hours_journal_rev,
     journal_international_reputable |-> DEFAULT_CONFIG.hours_journal_international_reputable,
     conference_wos_scopus |-> DEFAULT_CONFIG.hours_conference_wos_scopus,
     conference_international |-> DEFAULT_CONFIG.hours_conference_international,
     conference_national |-> DEFAULT_CONFIG.hours_conference_national,
     monograph_international |-> DEFAULT_CONFIG.hours_monograph_international,
     monograph_domestic |-> DEFAULT_CONFIG.hours_monograph_domestic,
     textbook_international |-> DEFAULT_CONFIG.hours_textbook_international,
     textbook_domestic |-> DEFAULT_CONFIG.hours_textbook_domestic,
     book_chapter_reputable |-> DEFAULT_CONFIG.hours_book_chapter_reputable,
     book_chapter_international |-> DEFAULT_CONFIG.hours_book_chapter_international,
     patent_international |-> DEFAULT_CONFIG.hours_patent_international,
     patent_vietnam |-> DEFAULT_CONFIG.hours_patent_vietnam,
     utility_solution |-> DEFAULT_CONFIG.hours_utility_solution,
     award_international |-> DEFAULT_CONFIG.hours_award_international,
     award_national |-> DEFAULT_CONFIG.hours_award_national,
     exhibition_international |-> DEFAULT_CONFIG.hours_exhibition_international,
     exhibition_national |-> DEFAULT_CONFIG.hours_exhibition_national,
     exhibition_provincial |-> DEFAULT_CONFIG.hours_exhibition_provincial]

\* the types whose hours a republication cuts to republished_book_max_ratio
RepublishableTypes ==
    {"monograph_international", "monograph_domestic", "textbook_international",
     "textbook_domestic", "book_chapter_reputable", "book_chapter_international"}

\* the types whose hours depend on patent_stage
StagedTypes == {"patent_international", "patent_vietnam", "utility_solution"}

\* get_base_hours, the if / elif chain over publication_type: whole hours
type_hours(publication_type, quartile, domestic_points) ==
    IF publication_type = "journal_wos_scopus"
    THEN (IF quartile \in {"Q1", "Q2"} THEN DEFAULT_CONFIG.hours_journal_wos_scopus_q1_q2
          ELSE DEFAULT_CONFIG.hours_journal_wos_scopus_q3_q4)
    ELSE IF publication_type = "journal_domestic"
    THEN (IF domestic_points >= 100 THEN DEFAULT_CONFIG.hours_journal_domestic_gte_1
          ELSE IF domestic_points >= 50 THEN DEFAULT_CONFIG.hours_journal_domestic_gte_05
          ELSE DEFAULT_CONFIG.hours_journal_domestic_lt_05)
    ELSE IF publication_type \in DOMAIN FlatTypeHours THEN FlatTypeHours[publication_type]
    ELSE 0

\* get_base_hours, the republication adjustment
republished_hours(hours, publication_type, is_republished) ==
    IF is_republished /\ publication_type \in RepublishableTypes
    THEN Frac(hours, 3) ELSE Frac(hours, 1)

\* get_base_hours, the patent stage adjustment
staged_hours(hours, publication_type, patent_stage) ==
    IF publication_type \notin StagedTypes THEN hours
    ELSE IF patent_stage = "stage_1" THEN FracMul(hours, 1, 3)
    ELSE IF patent_stage = "stage_2" THEN FracMul(hours, 2, 3)
    ELSE Frac(0, 1)

get_base_hours(publication_type, quartile, domestic_points, patent_stage, is_republished) ==
    staged_hours(republished_hours(type_hours(publication_type, quartile, domestic_points),
                                   publication_type, is_republished),
                 publication_type, patent_stage)

\* every main-author role earning the single one-sixth
bonus_sixths_single(role) == IF role \in {"first_corresponding", "first", "corresponding"} THEN 1 ELSE 0

\* calculate_author_hours, the bonus of the role in sixths of the base hours
bonus_sixths(role) ==
    IF role = "first_corresponding" THEN 2
    ELSE IF role \in {"first", "corresponding"} THEN 1
    ELSE 0

\* calculate_author_hours, below the two early returns
author_share(base_hours, author_role, total_authors) ==
    FracAdd(FracMul(base_hours, 2, 3 * (IF total_authors <= 0 THEN 1 ELSE total_authors)),
            FracMul(base_hours, bonus_sixths(or_string(author_role, "middle")), 6))

calculate_author_hours(base_hours, author_role, total_authors, contribution_percentage) ==
    IF base_hours.num <= 0 THEN Frac(0, 1)
    ELSE IF contribution_percentage # NoNumber /\ contribution_percentage > 0
    THEN FracMul(base_hours, contribution_percentage, 100)
    ELSE author_share(base_hours, author_role, total_authors)

\* the base hours of a publication row as calculate_publication_hours asks for them
publication_base_hours(pub) ==
    get_base_hours(pub.publication_type, pub.quartile, or_number(pub.domestic_points, 0),
                   pub.patent_stage, pub.is_republished)

calculate_publication_hours(pub) ==
    [base_hours |-> round2(publication_base_hours(pub)),
     author_hours |-> round2(calculate_author_hours(publication_base_hours(pub),
                                                    or_string(pub.author_role, "middle"),
                                                    or_number(pub.total_authors, 1),
                                                    pub.contribution_percentage))]

\* the dict calculate_project_hours returns, rounded field by field
project_hours_dict(total_hours, user_hours, leader_hours, secretary_hours, member_pool_hours, member_each_hours, other_members_count) ==
    [total_hours |-> round2(total_hours), user_hours |-> round2(user_hours),
     leader_hours |-> round2(leader_hours), secretary_hours |-> round2(secretary_hours),
     member_pool_hours |-> round2(member_pool_hours),
     member_each_hours |-> round2(member_each_hours),
     other_members_count |-> other_members_count]

\* calculate_project_hours: total_hours of the tier
project_total_hours(project_level, funding_amount, duration_years) ==
    IF project_level = "national" THEN Frac(DEFAULT_CONFIG.hours_project_national_total, 1)
    ELSE IF project_level = "vnu_ministry" THEN Frac(DEFAULT_CONFIG.hours_project_vnu_total, 1)
    ELSE IF project_level = "university"
    THEN Frac(DEFAULT_CONFIG.hours_project_university_total, 1)
    ELSE IF project_level = "cooperation"
    THEN FracAdd(Frac(DEFAULT_CONFIG.cooperation_base_hours, 1),
                 Frac(DEFAULT_CONFIG.cooperation_multiplier * funding_amount,
                      1000 * (IF duration_years <= 0 THEN 1 ELSE duration_years)))
    ELSE Frac(0, 1)

\* calculate_project_hours: leader_hours of the tier
project_leader_hours(project_level, total_hours) ==
    IF project_level = "national" THEN Frac(DEFAULT_CONFIG.hours_project_national_leader, 1)
    ELSE IF project_level = "vnu_ministry" THEN Frac(DEFAULT_CONFIG.hours_project_vnu_leader, 1)
    ELSE IF project_level = "university"
    THEN Frac(DEFAULT_CONFIG.hours_project_university_leader, 1)
    ELSE IF project_level = "cooperation" THEN FracMul(total_hours, 1, 2)
    ELSE Frac(0, 1)

\* calculate_project_hours: secretary_hours of the tier
project_secretary_hours(project_level, total_hours) ==
    IF project_level = "national" THEN Frac(DEFAULT_CONFIG.hours_project_national_secretary, 1)
    ELSE IF project_level = "vnu_ministry"
    THEN Frac(DEFAULT_CONFIG.hours_project_vnu_secretary, 1)
    ELSE IF project_level = "cooperation" THEN FracMul(total_hours, 1, 4)
    ELSE Frac(0, 1)

\* calculate_project_hours: member_pool_hours of the tier
project_member_pool_hours(project_level, total_hours) ==
    IF project_level = "national" THEN Frac(DEFAULT_CONFIG.hours_project_national_member, 1)
    ELSE IF project_level = "vnu_ministry" THEN Frac(DEFAULT_CONFIG.hours_project_vnu_member, 1)
    ELSE IF project_level = "cooperation" THEN FracMul(total_hours, 1, 4)
    ELSE Frac(0, 1)

\* calculate_project_hours: other_members_count
project_other_members_count(project_level, total_members) ==
    IF project_level = "university" \/ total_members < 2 THEN 0 ELSE total_members - 2

\* calculate_project_hours: member_each_hours
project_member_each_hours(member_pool_hours, other_members_count) ==
    IF other_members_count > 0 /\ member_pool_hours.num > 0
    THEN FracMul(member_pool_hours, 1, other_members_count)
    ELSE Frac(0, 1)

\* calculate_project_hours: user_hours by role
project_user_hours(role, leader_hours, secretary_hours, member_each_hours) ==
    IF role = "leader" THEN leader_hours
    ELSE IF role = "secretary" THEN secretary_hours
    ELSE member_each_hours

\* calculate_project_hours below the status test, total_hours and other_members_count in hand
project_hours_of_tier(project_level, role, total_hours, other_members_count) ==
    project_hours_dict(
        total_hours,
        project_user_hours(role, project_leader_hours(project_level, total_hours),
                           project_secretary_hours(project_level, total_hours),
                           project_member_each_hours(
                               project_member_pool_hours(project_level, total_hours),
                               other_members_count)),
        project_leader_hours(project_level, total_hours),
        project_secretary_hours(project_level, total_hours),
        project_member_pool_hours(project_level, total_hours),
        project_member_each_hours(project_member_pool_hours(project_level, total_hours),
                                  other_members_count),
        other_members_count)

calculate_project_hours(project_level, role, funding_amount, duration_years, status, total_members) ==
    IF status = "extended"
    THEN project_hours_dict(Frac(0, 1), Frac(0, 1), Frac(0, 1), Frac(0, 1), Frac(0, 1),
                            Frac(0, 1), 0)
    ELSE project_hours_of_tier(project_level, role,
                               project_total_hours(project_level, funding_amount,
                                                   duration_years),
                               project_other_members_count(project_level, total_members))

calculate_project_hours_from_model(project) ==
    calculate_project_hours(project.project_level, project.role,
                            or_number(project.funding_amount, 0),
                            or_number(project.duration_years, 1),
                            or_string(project.status, "completed"),
                            or_number(project.total_members, 1))

\* max(1, project.end_year - project.start_year + 1)
span_years(project) ==
    IF project.end_year < project.start_year THEN 1
    ELSE project.end_year - project.start_year + 1

\* calculate_project_hours_per_year below hours["user_hours"], in hundredths of an hour
per_year_of(project, user_hours) ==
    IF user_hours = 0 THEN 0
    ELSE IF project.project_level = "cooperation" THEN user_hours
    ELSE round2(Frac(user_hours, 100 * span_years(project)))

calculate_project_hours_per_year(project) ==
    per_year_of(project, calculate_project_hours_from_model(project).user_hours)

(***************************************************************************)
(* The engine on its own: any publication, project or other-activity      *)
(* record is an initial state, and one step applies the function of its    *)
(* table to it.                                                            *)
(***************************************************************************)
PublicationTypes == DOMAIN FlatTypeHours \cup {"journal_wos_scopus", "journal_domestic", "thesis"}

Quartiles == {"None", "Q1", "Q3", "Q9"}

\* Publication.domestic_points, in hundredths
DomesticPoints == {NoNumber, 50, 100}

PatentStages == {"None", "stage_1", "stage_2"}

AuthorRoles == {"None", "first", "corresponding", "first_corresponding", "middle", "editor"}

\* Publication.total_authors
TotalAuthors == {NoNumber, 1, 2, 4}

\* Publication.contribution_percentage
ContributionPercentages == {NoNumber, 0, 50}

Publications ==
    [table : {"publications"}, publication_type : PublicationTypes, quartile : Quartiles,
     domestic_points : DomesticPoints, patent_stage : PatentStages,
     is_republished : BOOLEAN, author_role : AuthorRoles, total_authors : TotalAuthors,
     contribution_percentage : ContributionPercentages]

ProjectLevels == {"national", "vnu_ministry", "university", "cooperation", "provincial"}

ProjectRoles == {"leader", "secretary", "member", "advisor"}

\* Project.funding_amount, in thousandths of a billion dong
FundingAmounts == {NoNumber, 500, 1250}

\* Project.duration_years
DurationYears == {NoNumber, 1, 3}

ProjectStatuses == {"None", "completed", "extended"}

\* Project.total_members
TotalMembers == {1, 2, 3, 5}

ProjectYears == {2024, 2025, 2026}

Projects ==
    [table : {"projects"}, project_level : ProjectLevels, role : ProjectRoles,
     funding_amount : FundingAmounts, duration_years : DurationYears,
     status : ProjectStatuses, total_members : TotalMembers,
     start_year : ProjectYears, end_year : ProjectYears]

EngineActivities ==
    [table : {"other_activities"}, activity_type : ActivityTypes, quantity : Quantities,
     year : Years]

\* nothing computed yet
NoHours == [table |-> "none"]

InitEngine ==
    /\ userUnit = [u \in Users |-> IF u = "u1" THEN "F1" ELSE NoId]
    /\ userDiv = [u \in Users |-> IF u = "u1" THEN "D1" ELSE NoId]
    /\ userActive = [u \in Users |-> TRUE]
    /\ roles = [k \in RoleKeys |-> IF k = UniversityRole("u2") THEN "active" ELSE "absent"]
    /\ sessRole = [u \in Users |-> NoRole]
    /\ sessUserMode = [u \in Users |-> FALSE]
    /\ items = [i \in Items |-> NoRow("none")]
    /\ log = <<>>
    /\ req = [r \in Requests |-> NoRequest]
    /\ ctx \in Publications \cup Projects \cup EngineActivities
    /\ dec = NoHours

\* calculate_publication_hours(ctx)
PublicationHours ==
    /\ dec = NoHours
    /\ ctx.table = "publications"
    /\ dec' = [table |-> "publications", hours |-> calculate_publication_hours(ctx)]
    /\ UNCHANGED <<orgVars, sessVars, items, log, req, ctx>>

\* calculate_project_hours_from_model(ctx) and calculate_project_hours_per_year(ctx)
ProjectHours ==
    /\ dec = NoHours
    /\ ctx.table = "projects"
    /\ dec' = [table |-> "projects", hours |-> calculate_project_hours_from_model(ctx),
               per_year |-> calculate_project_hours_per_year(ctx)]
    /\ UNCHANGED <<orgVars, sessVars, items, log, req, ctx>>

\* calculate_other_activity_hours_from_model(ctx)
OtherActivityHours ==
    /\ dec = NoHours
    /\ ctx.table = "other_activities"
    /\ dec' = [table |-> "other_activities",
               hours |-> calculate_other_activity_hours_from_model(ctx)]
    /\ UNCHANGED <<orgVars, sessVars, items, log, req, ctx>>

NextEngine == PublicationHours \/ ProjectHours \/ OtherActivityHours

SpecEngine == InitEngine /\ [][NextEngine]_vars

(***************************************************************************)
(* Properties                                                              *)
(***************************************************************************)
\* the approve table, rows in order: whether the row matches c, and its result
ApproveTable(c) ==
    << [match |-> c.is_office /\ c.current_status = "pending" /\ c.can_university,
        next |-> "approved"],
       [match |-> ~c.is_office /\ c.current_status = "pending" /\ c.can_department,
        next |-> "department_approved"],
       [match |-> ~c.is_office /\ c.current_status = "pending" /\ c.can_faculty
                     /\ c.missing_department_admin,
        next |-> "faculty_approved"],
       [match |-> ~c.is_office /\ c.current_status = "pending" /\ c.can_university
                     /\ c.missing_department_admin /\ c.missing_faculty_admin,
        next |-> "approved"],
       [match |-> ~c.is_office /\ c.current_status = "department_approved" /\ c.can_faculty,
        next |-> "faculty_approved"],
       [match |-> ~c.is_office /\ c.current_status = "department_approved"
                     /\ c.can_university /\ c.missing_faculty_admin,
        next |-> "approved"],
       [match |-> ~c.is_office /\ c.current_status = "faculty_approved" /\ c.can_university,
        next |-> "approved"] >>

MatchingRows(c) == {n \in DOMAIN ApproveTable(c) : ApproveTable(c)[n].match}

FirstMatchingRow(c) == CHOOSE n \in MatchingRows(c) : \A m \in MatchingRows(c) : n <= m

\* C1: for every context, next_status is the result of the first matching row of the
\* approve table and can_approve allows; when no row matches, next_status is the
\* current status and can_approve refuses.
C1_NextStatusIsFirstMatchingRow ==
    dec.done =>
        IF MatchingRows(ctx) # {}
        THEN dec.next = ApproveTable(ctx)[FirstMatchingRow(ctx)].next /\ dec.ok
        ELSE dec.next = ctx.current_status /\ ~dec.ok

\* C1 witness: a context that matches two rows (department and faculty access on a
\* pending item with a vacant department level) has been decided by the first
C1_Witness ==
    /\ dec.done
    /\ Cardinality(MatchingRows(ctx)) >= 2
    /\ ctx.can_department /\ ctx.can_faculty /\ ctx.missing_department_admin
    /\ dec.next = "department_approved"


\* the executor's answer to an approve / reject / return request of actor a on item i
ApproveResult(a, i) ==
    apply_approval_action_by_id(get_effective_context(a), i, "approve", a, "", TRUE)

RejectResult(a, i) ==
    IF admin_level_required(get_effective_context(a), "university")
    THEN apply_approval_action_by_id(get_effective_context(a), i, "reject", a, "", FALSE)
    ELSE Refused(items[i])

ReturnResult(a, i, reason) ==
    apply_approval_action_by_id(get_effective_context(a), i, "return", a, reason, FALSE)

\* a step that is a successful approve of item i by actor a
ApproveSucceeds(a, i) == approve_publication(a, i) /\ ApproveResult(a, i).ok

\* C2: a successful approve by an actor whose effective level is university, on a
\* non-office owner's item, happens on a pending item only if the owner's department
\* and faculty levels are both vacant and on a department_approved item only if the
\* faculty level is vacant; one by an actor whose effective level is faculty happens
\* on a pending item only if the department level is vacant.
C2_NoApproveOverStaffedLevel ==
    [][\A a \in Users, i \in Items :
          ApproveSucceeds(a, i) /\ ~is_office_user(OwnerOf[i]) =>
              /\ get_effective_context(a).level = "university"
                     /\ items[i].approval_status = "pending"
                 => /\ ~has_department_admin_for_owner(OwnerOf[i])
                    /\ ~has_faculty_admin_for_owner(OwnerOf[i])
              /\ get_effective_context(a).level = "university"
                     /\ items[i].approval_status = "department_approved"
                 => ~has_faculty_admin_for_owner(OwnerOf[i])
              /\ get_effective_context(a).level = "faculty"
                     /\ items[i].approval_status = "pending"
                 => ~has_department_admin_for_owner(OwnerOf[i])]_vars

\* C4: a reject request on an item whose status is not approved changes neither
\* the item nor the approval log.
C4_RejectOnlyFromApproved ==
    [][\A a \in Users, i \in Items :
          /\ reject_publication(a, i)
          /\ items[i].row = "live"
          /\ items[i].approval_status # "approved"
          => items' = items /\ log' = log]_vars

\* C5: a return request on an item whose status is approved or draft changes
\* neither the item nor the approval log, whoever asks and whatever the reason.
C5_NoReturnFromApprovedOrDraft ==
    [][\A a \in Users, i \in Items, reason \in Reasons :
          /\ return_publication(a, i, reason)
          /\ items[i].row = "live"
          /\ items[i].approval_status \in {"approved", "draft"}
          => items' = items /\ log' = log]_vars


\* position of a status on the approval path
StatusRank(st) ==
    IF st = "department_approved" THEN 1
    ELSE IF st = "faculty_approved" THEN 2
    ELSE IF st = "approved" THEN 3
    ELSE 0

\* how many of the two intermediate levels have no active admin for the owner's scope
VacantLevels(owner) ==
    (IF has_department_admin_for_owner(owner) THEN 0 ELSE 1)
    + (IF has_faculty_admin_for_owner(owner) THEN 0 ELSE 1)

\* C7: a successful approve jumps over at most as many intermediate statuses as the
\* owner's scope has vacant intermediate levels, for office and non-office owners.
C7_SkipsAtMostVacantLevels ==
    [][\A a \in Users, i \in Items :
          ApproveSucceeds(a, i) =>
              StatusRank(items'[i].approval_status)
                  <= StatusRank(items[i].approval_status) + 1 + VacantLevels(OwnerOf[i])]_vars

\* the same bound for non-office owners only
C7_SkipsAtMostVacantLevelsNonOffice ==
    [][\A a \in Users, i \in Items :
          ApproveSucceeds(a, i) /\ ~is_office_user(OwnerOf[i]) =>
              StatusRank(items'[i].approval_status)
                  <= StatusRank(items[i].approval_status) + 1 + VacantLevels(OwnerOf[i])]_vars

\* an approve request of actor a on item i would go through
ApproveAllowed(a, i) == admin_required(a) /\ ApproveResult(a, i).ok

\* C8: right after a successful approve that left the actor's grants and act-as
\* state as they were, the same actor's approve on the same item is refused.
C8_SecondApproveRefused ==
    [][\A a \in Users, i \in Items :
          ApproveSucceeds(a, i) /\ sessRole'[a] = sessRole[a] => ~ApproveAllowed(a, i)']_vars

\* the effective contexts user a can work under by choosing an act-as role
\* (or none) on the act-as form
PossibleContexts(a) ==
    {effective_context(FALSE, act_as_role(FALSE, rid, ActiveRolesOf(a)),
                       highest_admin_level(a)) : rid \in ActiveRolesOf(a) \cup {NoRole}}

\* some active admin, under some act-as choice, is allowed to approve item i
SomeoneCanApprove(i) ==
    \E a \in Users :
        /\ userActive[a] /\ is_admin(a)
        /\ \E c \in PossibleContexts(a) :
               apply_approval_action_by_id(c, i, "approve", a, "", TRUE).ok

\* C9: while an active university admin exists, every item that is pending,
\* department_approved or faculty_approved can be approved by some admin.
C9_InFlightItemCanBeApproved ==
    \A i \in Items :
        /\ items[i].row = "live"
        /\ items[i].approval_status \in {"pending", "department_approved", "faculty_approved"}
        /\ count_effective_admins_by_scope("university", NoId, NoId, NoRole, NoId) > 0
        => SomeoneCanApprove(i)

\* the same for items whose owner is not (or no longer) in an office-type unit
C9_InFlightItemCanBeApprovedNonOffice ==
    \A i \in Items :
        /\ items[i].row = "live"
        /\ items[i].approval_status \in {"pending", "department_approved", "faculty_approved"}
        /\ count_effective_admins_by_scope("university", NoId, NoId, NoRole, NoId) > 0
        /\ ~is_office_user(OwnerOf[i])
        => SomeoneCanApprove(i)

\* C6: for a non-office owner whose division has an active department admin and whose
\* unit has an active faculty admin, every successful approve starts from pending,
\* department_approved or faculty_approved and advances the status by exactly one step.
C6_StaffedChainOneStepAtATime ==
    [][\A a \in Users, i \in Items :
          /\ ApproveSucceeds(a, i)
          /\ ~is_office_user(OwnerOf[i])
          /\ has_department_admin_for_owner(OwnerOf[i])
          /\ has_faculty_admin_for_owner(OwnerOf[i])
          => /\ items[i].approval_status
                    \in {"pending", "department_approved", "faculty_approved"}
             /\ StatusRank(items'[i].approval_status)
                    = StatusRank(items[i].approval_status) + 1]_vars

\* C6 witness: three approvals in a row have taken the item through department_approved
\* and faculty_approved to approved
C6_Witness ==
    /\ Len(log) = 3
    /\ log[1].action = "department_approve" /\ log[1].old_status = "pending"
    /\ log[2].action = "faculty_approve" /\ log[2].old_status = "department_approved"
    /\ log[3].action = "university_approve" /\ log[3].old_status = "faculty_approved"
    /\ items["i1"].approval_status = "approved"
    /\ has_department_admin_for_owner("u1") /\ has_faculty_admin_for_owner("u1")

\* the step appends to approval_logs exactly one row, of item i and actor a, carrying
\* the item's status before and after the step
AppendsEntry(a, i) ==
    /\ Len(log') = Len(log) + 1
    /\ SubSeq(log', 1, Len(log)) = log
    /\ log'[Len(log')].item_id = i
    /\ log'[Len(log')].performed_by = a
    /\ log'[Len(log')].old_status = items[i].approval_status
    /\ log'[Len(log')].new_status = items'[i].approval_status

\* the step is an approve, reject or return request the executor answers with ok
ExecutorSucceeds(a, i) ==
    \/ approve_publication(a, i) /\ ApproveResult(a, i).ok
    \/ reject_publication(a, i) /\ RejectResult(a, i).ok
    \/ \E reason \in Reasons : return_publication(a, i, reason) /\ ReturnResult(a, i, reason).ok

\* the step is an approve, reject or return request the executor refuses
ExecutorRefuses(a, i) ==
    \/ approve_publication(a, i) /\ ~ApproveResult(a, i).ok
    \/ reject_publication(a, i) /\ ~RejectResult(a, i).ok
    \/ \E reason \in Reasons : return_publication(a, i, reason) /\ ~ReturnResult(a, i, reason).ok

\* C10: a successful approve, return or reject appends exactly one log row whose
\* old_status and new_status are the item's status before and after; a refused one
\* appends none; the owner's add, edit and delete append none; and every step leaves
\* the rows already in the log as they are, a row being added only by a successful
\* approve, return or reject.
C10_OneLogEntryPerTransition ==
    [][/\ \A a \in Users, i \in Items :
              /\ ExecutorSucceeds(a, i) => AppendsEntry(a, i)
              /\ ExecutorRefuses(a, i) => log' = log
       /\ \A i \in Items, action \in FormActions :
              add_publication(i, action) \/ edit_publication(i, action)
                  \/ delete_publication(i) => log' = log
       /\ Len(log') >= Len(log) /\ SubSeq(log', 1, Len(log)) = log
       /\ log' # log => \E a \in Users, i \in Items : ExecutorSucceeds(a, i)]_vars

\* C10 witness: an approval and then a rejection have each left their row
C10_Witness ==
    /\ Len(log) = 2
    /\ log[1].action = "university_approve"
    /\ log[1].old_status = "pending" /\ log[1].new_status = "approved"
    /\ log[2].action = "reject"
    /\ log[2].old_status = "approved" /\ log[2].new_status = "pending"
    /\ items["i1"].approval_status = "pending"

\* an approve of another actor on the item of slot r was committed after slot r loaded
\* the item
OtherApproveLanded(r) ==
    \E n \in (req[r].seen + 1)..Len(log) :
        /\ log[n].item_id = req[r].item
        /\ log[n].performed_by # req[r].actor
        /\ log[n].old_status = req[r].row.approval_status

\* C3: of two actors' approve requests that both loaded the item before either
\* committed, the one that commits second is refused: it changes neither the item
\* nor the approval log.
C3_ConcurrentApproveOnlyOneWins ==
    [][\A r \in Requests :
          FinishApprove(r) /\ OtherApproveLanded(r) => items' = items /\ log' = log]_vars

IsReturned(i) == items[i].row = "live" /\ items[i].approval_status = "returned"

\* C12: a returned item has a non-empty rejection_reason; the owner's save-as-draft
\* leaves a returned item's status and reason as they are; and the reason of a returned
\* item is cleared only by the owner's resubmission, which makes the item pending.
C12_ReturnedKeepsReason ==
    /\ [](\A i \in Items : IsReturned(i) => items[i].rejection_reason \notin {Null, ""})
    /\ [][\A i \in Items :
             /\ IsReturned(i) /\ edit_publication(i, "save_draft") => items'[i] = items[i]
             /\ IsReturned(i) /\ items'[i].row = "live" /\ items'[i].rejection_reason = Null
                => /\ edit_publication(i, "submit")
                   /\ items'[i].approval_status = "pending"]_vars

\* the part of C12 about the stored state alone: a returned item has a non-empty reason
C12_ReturnedHasReason ==
    \A i \in Items : IsReturned(i) => items[i].rejection_reason \notin {Null, ""}

\* the reasons that are empty or only whitespace
BlankReasons == {"", " "}

\* C13: a return request whose reason is empty or only whitespace changes neither
\* the item (status, rejection_reason, timestamps) nor the approval log, whoever asks
\* and whatever the item's status.
C13_BlankReasonRefused ==
    [][\A a \in Users, i \in Items, reason \in BlankReasons :
          return_publication(a, i, reason) => items' = items /\ log' = log]_vars

\* C13 witness: an admin who can return a pending item with a reason is refused
\* with a blank one
C13_Witness ==
    /\ items["i1"].row = "live" /\ items["i1"].approval_status = "pending"
    /\ admin_required("u2")
    /\ ReturnResult("u2", "i1", "fix").ok
    /\ ~ReturnResult("u2", "i1", " ").ok
    /\ ~ReturnResult("u2", "i1", "").ok

\* a step that is a successful return of item i by actor a
ReturnSucceeds(a, i) ==
    \E reason \in Reasons : return_publication(a, i, reason) /\ ReturnResult(a, i, reason).ok

\* the role rows that give their holder access to user owner: a university role, a
\* faculty role of the owner's unit, a department role of the owner's division
RolesOver(owner) ==
    {k \in RoleKeys :
        \/ k.level = "university"
        \/ k.level = "faculty" /\ userUnit[owner] # NoId /\ k.unit = userUnit[owner]
        \/ k.level = "department" /\ userDiv[owner] # NoId /\ k.div = userDiv[owner]}

\* C14: a return succeeds on an office owner's item only for an actor holding an
\* active university role and not acting under a lower role, and on a non-office
\* owner's item only for an actor holding an active university role, faculty role of
\* the owner's unit or department role of the owner's division; an actor with none of
\* these never moves an item to returned.
C14_ReturnOnlyWithAccess ==
    [][\A a \in Users, i \in Items :
          ReturnSucceeds(a, i) =>
              /\ userActive[a] /\ ~sessUserMode[a]
              /\ ActiveRolesOf(a) \cap RolesOver(OwnerOf[i]) # {}
              /\ is_office_user(OwnerOf[i]) =>
                     /\ UniversityRole(a) \in ActiveRolesOf(a)
                     /\ get_effective_context(a).level = "university"]_vars

\* C14 witness: a university admin has returned the item of an owner who sits in an
\* office-type unit
C14_Witness ==
    /\ is_office_user("u1")
    /\ items["i1"].row = "live" /\ items["i1"].approval_status = "returned"
    /\ log # <<>>
    /\ log[Len(log)].action = "return" /\ log[Len(log)].performed_by = "u2"
    /\ log[Len(log)].old_status = "pending"
    /\ UniversityRole("u2") \in ActiveRolesOf("u2")

\* C15: for a non-office owner's item that is pending, department_approved or
\* faculty_approved, the return request (with a non-empty reason) of every admin actor
\* who has access to the owner at department, faculty or university level succeeds.
C15_ReturnWithAccessSucceeds ==
    \A a \in Users, i \in Items :
        /\ items[i].row = "live"
        /\ items[i].approval_status \in {"pending", "department_approved", "faculty_approved"}
        /\ ~is_office_user(OwnerOf[i])
        /\ admin_required(a)
        /\ can_return_item(get_effective_context(a), OwnerOf[i], a)
        => ReturnResult(a, i, "fix").ok

\* a step that is a successful reject of item i by actor a
RejectSucceeds(a, i) == reject_publication(a, i) /\ RejectResult(a, i).ok

\* C16: a reject succeeds only for an active actor, not in plain-user mode, whose
\* effective level is university; under a lower act-as role a holder of a university
\* role rejects nothing.
C16_RejectOnlyAtUniversityLevel ==
    [][\A a \in Users, i \in Items :
          /\ RejectSucceeds(a, i) =>
                 /\ get_effective_context(a).level = "university"
                 /\ userActive[a] /\ ~sessUserMode[a]
          /\ reject_publication(a, i) /\ get_effective_context(a).level # "university"
                 => items' = items /\ log' = log]_vars

\* C16 witness: the holder of a university role acts under its department role and
\* is refused the reject of an approved item of that division
C16_Witness ==
    /\ items["i1"].row = "live" /\ items["i1"].approval_status = "approved"
    /\ UniversityRole("u2") \in ActiveRolesOf("u2")
    /\ admin_level_reached("u2")
    /\ get_effective_context("u2").level = "department"
    /\ filter_items_by_scope(get_effective_context("u2"), "i1", "u2")
    /\ ~RejectResult("u2", "i1").ok

\* the step is a request of the owner of item i: add, edit or delete
OwnerStep(i) ==
    \/ \E action \in FormActions : add_publication(i, action) \/ edit_publication(i, action)
    \/ delete_publication(i)

\* C17: the owner's submit takes the item from draft or returned to pending and clears
\* rejection_reason; the owner's save-as-draft leaves a returned item as it is and
\* otherwise keeps the status draft; a new item starts as pending (submit) or draft;
\* and no request of the owner leaves an item in a status it changed to other than
\* draft or pending.
C17_OwnerSubmitAndSaveDraft ==
    [][\A i \in Items :
          /\ edit_publication(i, "submit") =>
                 /\ items[i].approval_status \in {"draft", "returned"}
                 /\ items'[i].approval_status = "pending"
                 /\ items'[i].rejection_reason = Null
          /\ edit_publication(i, "save_draft") =>
                 IF items[i].approval_status = "returned"
                 THEN items'[i] = items[i]
                 ELSE items[i].approval_status = "draft"
                          /\ items'[i].approval_status = "draft"
          /\ add_publication(i, "submit") => items'[i].approval_status = "pending"
          /\ add_publication(i, "save_draft") => items'[i].approval_status = "draft"
          /\ OwnerStep(i) /\ items'[i].row = "live"
                 /\ (items[i].row # "live"
                        \/ items'[i].approval_status # items[i].approval_status)
                 => items'[i].approval_status \in {"draft", "pending"}]_vars

\* C17 witness: the owner has resubmitted a returned item, which is pending again
\* with its reason cleared
C17_Witness ==
    /\ log # <<>> /\ log[Len(log)].action = "return"
    /\ items["i1"].row = "live"
    /\ items["i1"].approval_status = "pending"
    /\ items["i1"].rejection_reason = Null
    /\ ~items["i1"].returned_at
    /\ items["i1"].returned_by_level # NoId

\* the statuses in which the item is with the admins
SubmittedStatuses == {"pending", "department_approved", "faculty_approved", "approved"}

\* the step is an approve, reject or return request of some admin actor on item i
AdminStep(i) ==
    \E a \in Users :
        \/ approve_publication(a, i)
        \/ reject_publication(a, i)
        \/ \E reason \in Reasons : return_publication(a, i, reason)

\* C18: while an item is pending, department_approved, faculty_approved or approved,
\* no request of its owner (edit with submit or save-as-draft, delete) changes or
\* removes it, and every step that changes it is an approve, return or reject request.
C18_SubmittedItemOnlyMovedByAdmins ==
    [][\A i \in Items :
          items[i].row = "live" /\ items[i].approval_status \in SubmittedStatuses =>
              /\ OwnerStep(i) => items'[i] = items[i]
              /\ items'[i] # items[i] => AdminStep(i)]_vars

\* C18 witness: the owner, still active, has an approved item that was approved,
\* rejected and approved again without the owner's doing
C18_Witness ==
    /\ login_required("u1")
    /\ items["i1"].row = "live" /\ items["i1"].approval_status = "approved"
    /\ ~can_edit(items["i1"]) /\ ~can_delete(items["i1"])
    /\ Len(log) = 2
    /\ log[1].action = "reject" /\ log[2].new_status = "approved"

\* the running batch request listed item i: the session loaded its row, and the row
\* awaits the batch's actor
InBatch(i) ==
    /\ req.loaded[i].row = "live"
    /\ filter_my_pending_items(req.context, i, req.actor)

\* what approve by the batch's actor does to the stored row of item i
BatchResult(i) ==
    apply_approval_action(req.context, items[i], i, "approve", req.actor, "")

\* the items of the running batch whose approve succeeds
BatchSuccesses == {i \in BatchItems : InBatch(i) /\ BatchResult(i).ok}

\* C19: while the batch request visits its items nothing of it is stored: a turn of
\* the loop leaves the item rows and approval_logs as they are.  Its one commit stores
\* every successful transition of the items that awaited the actor, each with its log
\* entry, adds no other log row and changes no other item.
C19_BatchCommitsAllOrNothing ==
    [][/\ \A i \in BatchItems : BatchApprove(i) => items' = items /\ log' = log
       /\ CommitBatch =>
              /\ \A i \in BatchSuccesses :
                     /\ items'[i] = sync_is_approved(BatchResult(i).row)
                     /\ \E n \in (Len(log) + 1)..Len(log') :
                            log'[n] = BatchResult(i).entries[1]
              /\ \A i \in BatchItems \ BatchSuccesses : items'[i] = items[i]
              /\ Len(log') = Len(log) + Cardinality(BatchSuccesses)
              /\ SubSeq(log', 1, Len(log)) = log
              /\ req'.count = Cardinality(BatchSuccesses)]_vars

\* C19 witness: one batch request has moved two items that stood at different
\* statuses, after a single approve had moved one of them
C19_Witness ==
    /\ req.pc = "idle" /\ req.count = 2
    /\ Len(log) = 3
    /\ log[2].item_id # log[3].item_id
    /\ log[2].old_status # log[3].old_status
    /\ \A i \in BatchItems : items[i].approval_status = log[IF log[2].item_id = i THEN 2 ELSE 3].new_status

\* the scopes that hold admins: the university, each faculty-type unit, each division
AdminScopes ==
    {[level |-> "university", unit |-> NoId, div |-> NoId]}
    \cup {[level |-> "faculty", unit |-> f, div |-> NoId] :
              f \in {g \in Units : UnitType[g] = "faculty"}}
    \cup {[level |-> "department", unit |-> NoId, div |-> d] : d \in Divisions}

\* the active admins of scope s: active role rows at its level whose holder is active
ActiveAdminsOf(s) ==
    {k \in RoleKeys :
        /\ k.level = s.level
        /\ s.level = "faculty" => k.unit = s.unit
        /\ s.level = "department" => k.div = s.div
        /\ roles[k] = "active" /\ userActive[k.user]}

\* the same after the step
ActiveAdminsAfter(s) ==
    {k \in RoleKeys :
        /\ k.level = s.level
        /\ s.level = "faculty" => k.unit = s.unit
        /\ s.level = "department" => k.div = s.div
        /\ roles'[k] = "active" /\ userActive'[k.user]}

\* C20: no step of the roster operations (role grant, role toggle, role deletion,
\* user activation or deactivation) takes a scope that has an active admin at its
\* level to having none.
C20_ScopeKeepsAnAdmin ==
    [][\A s \in AdminScopes : ActiveAdminsOf(s) # {} => ActiveAdminsAfter(s) # {}]_vars

\* the three flags of get_scope_permissions are all false
NoScopePermission(p) == ~p.u /\ ~p.f /\ ~p.d

\* what the resolver gives user u, in plain-user mode, is that of a non-admin
ActsAsNonAdmin(u) ==
    /\ effective_admin_level(get_effective_context(u)) = "none"
    /\ \A l \in Levels : get_role_scope_ids(get_effective_context(u), u, l) = {}
    /\ \A owner \in Users :
           NoScopePermission(get_scope_permissions(get_effective_context(u), u, owner))

\* C21: while the plain-user-mode flag of a user is set, the user's effective level is
\* none, the scope id set is empty at every level, the three scope permission flags are
\* false for every item owner, and no approve, return or reject of that user succeeds.
C21_PlainUserModeIsNonAdmin ==
    /\ [](\A u \in Users : sessUserMode[u] => ActsAsNonAdmin(u))
    /\ [][\A a \in Users, i \in Items :
              sessUserMode[a] =>
                  ~ApproveSucceeds(a, i) /\ ~ReturnSucceeds(a, i) /\ ~RejectSucceeds(a, i)]_vars

\* user u, not in plain-user mode, has chosen the act-as role k, an active grant of u
ActsAs(u, k) == ~sessUserMode[u] /\ sessRole[u] = k /\ k \in ActiveRolesOf(u)

\* the permissions of user u under the effective context of u's request
PermissionsOf(u, owner) == get_scope_permissions(get_effective_context(u), u, owner)

\* C22: under an act-as override that is an active faculty grant of unit U, whatever
\* other grants the actor holds, the effective level is faculty, the faculty scope is
\* {U} and the department scope empty, can_faculty holds exactly for the owners
\* placed in U, and can_university and can_department are false.  Under an active
\* department grant of division D the level is department, the department scope is
\* {D} and the faculty scope empty, can_department holds exactly for the owners of D
\* and the other two flags are false.
C22_ActAsLocksToOneGrant ==
    \A u \in Users, k \in RoleKeys :
        ActsAs(u, k) =>
            /\ k.level = "faculty" =>
                   /\ effective_admin_level(get_effective_context(u)) = "faculty"
                   /\ get_role_scope_ids(get_effective_context(u), u, "faculty") = {k.unit}
                   /\ get_role_scope_ids(get_effective_context(u), u, "department") = {}
                   /\ \A owner \in Users :
                          /\ PermissionsOf(u, owner).f <=> userUnit[owner] = k.unit
                          /\ ~PermissionsOf(u, owner).u
                          /\ ~PermissionsOf(u, owner).d
            /\ k.level = "department" =>
                   /\ effective_admin_level(get_effective_context(u)) = "department"
                   /\ get_role_scope_ids(get_effective_context(u), u, "department") = {k.div}
                   /\ get_role_scope_ids(get_effective_context(u), u, "faculty") = {}
                   /\ \A owner \in Users :
                          /\ PermissionsOf(u, owner).d <=> userDiv[owner] = k.div
                          /\ ~PermissionsOf(u, owner).u
                          /\ ~PermissionsOf(u, owner).f

\* C22 witness: u2 holds the university role, the faculty role of F1 and the
\* department role of D1, acts as the faculty role, and the owner u1 sits in F1 / D1
C22_Witness ==
    /\ Cardinality(ActiveRolesOf("u2")) = 3
    /\ \E k \in RoleKeys : k.level = "faculty" /\ k.unit = "F1" /\ ActsAs("u2", k)
    /\ has_admin_role("u2", "department", NoId, "D1")
    /\ userUnit["u1"] = "F1" /\ userDiv["u1"] = "D1"
    /\ PermissionsOf("u2", "u1").f

\* the highest level among the active grants of u, none without a grant
HighestGrantLevel(u) ==
    CHOOSE l \in Levels \cup {"none"} :
        /\ l = "none" \/ \E k \in ActiveRolesOf(u) : k.level = l
        /\ \A k \in ActiveRolesOf(u) : ADMIN_LEVEL_HIERARCHY[k.level] <= ADMIN_LEVEL_HIERARCHY[l]

\* the scope identifiers of all active grants of u at level l
GrantScopeIds(u, l) ==
    IF l = "faculty" THEN {k.unit : k \in {j \in ActiveRolesOf(u) : j.level = "faculty"}}
    ELSE IF l = "department"
        THEN {k.div : k \in {j \in ActiveRolesOf(u) : j.level = "department"}}
    ELSE {}

\* the resolver gives u the highest level of u's grants and, at every level, all the
\* scope identifiers of u's grants of that level
ResolvesToAllGrants(u) ==
    /\ effective_admin_level(get_effective_context(u)) = HighestGrantLevel(u)
    /\ \A l \in Levels :
           get_role_scope_ids(get_effective_context(u), u, l) = GrantScopeIds(u, l)

\* C23 as stated: with plain-user mode off and no override stored in the session, the
\* effective level is the highest level among the actor's active grants and the scope
\* ids are those of all active grants of that level, also for a holder of several
\* grants.
C23_NoOverrideResolvesToAllGrants ==
    \A u \in Users : ~sessUserMode[u] /\ sessRole[u] = NoRole => ResolvesToAllGrants(u)

\* C23 amended: with plain-user mode off and no act-as role in effect (the actor
\* holds at most one active grant, or the stored override no longer names an active
\* grant of the actor), the effective level is the highest level among the actor's
\* active grants and the scope ids are those of all active grants of that level.
C23_NoActAsRoleResolvesToAllGrants ==
    \A u \in Users :
        ~sessUserMode[u] /\ get_act_as_role(u) = NoRole => ResolvesToAllGrants(u)

\* C23 witness: a user holds a faculty and a department grant, the override stored
\* in the user's session names a role that is no longer an active grant, and no
\* act-as role is in effect: the level is faculty and both scopes are the grants'
C23_Witness ==
    \E u \in Users :
        /\ ~sessUserMode[u]
        /\ sessRole[u] # NoRole /\ sessRole[u] \notin ActiveRolesOf(u)
        /\ get_act_as_role(u) = NoRole
        /\ has_admin_role(u, "faculty", NoId, NoId)
        /\ has_admin_role(u, "department", NoId, NoId)
        /\ effective_admin_level(get_effective_context(u)) = "faculty"
        /\ get_role_scope_ids(get_effective_context(u), u, "department") # {}

\* the level of the default role for a holder of the grants S
DefaultLevel(S) ==
    IF \E k \in S : k.level = "faculty" THEN "faculty"
    ELSE IF \E k \in S : k.level = "department" THEN "department"
    ELSE "university"

\* C24: for a user not in plain-user mode whose session stores no override, a request
\* acts as, and stores in the session, one of the user's active grants when the user
\* holds more than one: a faculty grant if there is one, otherwise a department grant,
\* otherwise a university grant.  With exactly one active grant, or none, no role is
\* chosen and none is stored.
C24_DefaultRolePreference ==
    \A u \in Users :
        ~sessUserMode[u] /\ sessRole[u] = NoRole =>
            IF Cardinality(ActiveRolesOf(u)) > 1
            THEN /\ get_act_as_role(u) \in ActiveRolesOf(u)
                 /\ get_act_as_role(u).level = DefaultLevel(ActiveRolesOf(u))
                 /\ SessionAfter(u) = get_act_as_role(u)
            ELSE get_act_as_role(u) = NoRole /\ SessionAfter(u) = NoRole

\* C24 witness: a user without a stored override holds the university grant and a
\* department grant and no faculty grant; the default is the department grant
C24_Witness ==
    \E u \in Users :
        /\ ~sessUserMode[u] /\ sessRole[u] = NoRole
        /\ has_admin_role(u, "university", NoId, NoId)
        /\ has_admin_role(u, "department", NoId, NoId)
        /\ ~has_admin_role(u, "faculty", NoId, NoId)
        /\ get_act_as_role(u).level = "department"

\* user a, active and not in plain-user mode, makes requests at effective level l
ActsAtLevel(a, l) ==
    admin_required(a) /\ effective_admin_level(get_effective_context(a)) = l

\* item i is in the needs-my-action listing of user a
NeedsMyAction(a, i) == filter_my_pending_items(get_effective_context(a), i, a)

\* the unit has no active faculty admin; the division has no active department admin
NoFacultyAdmin(unit) ==
    count_effective_admins_by_scope("faculty", unit, NoId, NoRole, NoId) = 0
NoDepartmentAdmin(div) ==
    count_effective_admins_by_scope("department", NoId, div, NoRole, NoId) = 0

\* the owner has no division, or one without department admin
NoDepartmentLevel(owner) == userDiv[owner] = NoId \/ NoDepartmentAdmin(userDiv[owner])

\* the university listing as C25 words it: a non-office owner is any owner who is not
\* placed in an office unit, and a unit with zero faculty admins is any unit
UniversityListingAsStated(i) ==
    /\ items[i].row = "live"
    /\ \/ items[i].approval_status = "faculty_approved" /\ ~is_office_user(OwnerOf[i])
       \/ items[i].approval_status = "pending" /\ is_office_user(OwnerOf[i])
       \/ /\ items[i].approval_status = "department_approved"
          /\ userUnit[OwnerOf[i]] # NoId /\ NoFacultyAdmin(userUnit[OwnerOf[i]])
       \/ /\ items[i].approval_status = "pending"
          /\ userUnit[OwnerOf[i]] # NoId /\ NoFacultyAdmin(userUnit[OwnerOf[i]])
          /\ NoDepartmentLevel(OwnerOf[i])

\* the owner is placed in a unit that is not an office
InNonOfficeUnit(owner) == userUnit[owner] # NoId /\ UnitType[userUnit[owner]] # "office"

\* the university listing with both wordings narrowed to owners placed in a
\* non-office unit
UniversityListing(i) ==
    /\ items[i].row = "live"
    /\ \/ items[i].approval_status = "faculty_approved" /\ InNonOfficeUnit(OwnerOf[i])
       \/ items[i].approval_status = "pending" /\ is_office_user(OwnerOf[i])
       \/ /\ items[i].approval_status = "department_approved"
          /\ InNonOfficeUnit(OwnerOf[i]) /\ NoFacultyAdmin(userUnit[OwnerOf[i]])
       \/ /\ items[i].approval_status = "pending"
          /\ InNonOfficeUnit(OwnerOf[i]) /\ NoFacultyAdmin(userUnit[OwnerOf[i]])
          /\ NoDepartmentLevel(OwnerOf[i])

\* C25 as stated: at effective level university the needs-my-action listing holds
\* exactly the faculty_approved items of non-office owners, the pending items of
\* office owners, the department_approved items owned in units without active faculty
\* admin, and the pending items owned in such units by owners without division or
\* whose division has no active department admin.
C25_UniversityListingAsStated ==
    \A a \in Users, i \in Items :
        ActsAtLevel(a, "university") => (NeedsMyAction(a, i) <=> UniversityListingAsStated(i))

\* C25 narrowed (holds): the same, the faculty_approved items being those of owners
\* placed in a non-office unit and the units without faculty admin being non-office
\* units.
C25_UniversityListing ==
    \A a \in Users, i \in Items :
        ActsAtLevel(a, "university") => (NeedsMyAction(a, i) <=> UniversityListing(i))

\* the divisions, and the units, the request of user a acts for
ActorDivisions(a) == get_role_scope_ids(get_effective_context(a), a, "department")
ActorUnits(a) == get_role_scope_ids(get_effective_context(a), a, "faculty")

\* the department listing as C26 words it
DepartmentListing(a, i) ==
    /\ items[i].row = "live"
    /\ items[i].approval_status = "pending"
    /\ userDiv[OwnerOf[i]] \in ActorDivisions(a)
    /\ ~is_office_user(OwnerOf[i])

\* the faculty listing as C26 words it
FacultyListing(a, i) ==
    /\ items[i].row = "live"
    /\ userUnit[OwnerOf[i]] \in ActorUnits(a)
    /\ \/ items[i].approval_status = "department_approved"
       \/ items[i].approval_status = "pending" /\ NoDepartmentLevel(OwnerOf[i])

\* C26: at effective level department the needs-my-action listing holds exactly the
\* pending items owned in one of the actor's divisions by owners whose unit is not an
\* office; at effective level faculty it holds exactly the department_approved items
\* owned in the actor's units and the pending items owned there by owners without
\* division or whose division has no active department admin.
C26_DepartmentAndFacultyListing ==
    \A a \in Users, i \in Items :
        /\ ActsAtLevel(a, "department") => (NeedsMyAction(a, i) <=> DepartmentListing(a, i))
        /\ ActsAtLevel(a, "faculty") => (NeedsMyAction(a, i) <=> FacultyListing(a, i))

\* the status filters of the generic listings
GenericFilters == ALLOWED_STATUS_FILTERS \ {"pending"}

\* user a is shown item i by some generic listing, or by a scoped single-item lookup
\* that does not include lower-level pending
Shown(a, i) ==
    \/ \E status \in GenericFilters :
           list_all_publications(get_effective_context(a), i, a, status)
    \/ get_scoped_item_or_none(get_effective_context(a), i, a, FALSE)

\* C27: an actor at effective level faculty is never shown a pending item; an actor at
\* effective level university is never shown a department_approved item, and is shown
\* a pending item only if its owner is placed in an office unit.
C27_LowerLevelPendingHidden ==
    \A a \in Users, i \in Items :
        /\ ActsAtLevel(a, "faculty") /\ Shown(a, i) => items[i].approval_status # "pending"
        /\ ActsAtLevel(a, "university") /\ Shown(a, i) =>
               /\ items[i].approval_status # "department_approved"
               /\ items[i].approval_status = "pending" => is_office_user(OwnerOf[i])

\* C27 witness: an actor at university level is shown the pending item of an office
\* owner under the filter all, and the unit has a faculty admin
C27_Witness ==
    \E a \in Users :
        /\ ActsAtLevel(a, "university")
        /\ list_all_publications(get_effective_context(a), "i1", a, "all")
        /\ items["i1"].approval_status = "pending"
        /\ is_office_user(OwnerOf["i1"])
        /\ ~NoFacultyAdmin(userUnit[OwnerOf["i1"]])

\* a role row has the scope shape of its level
HasScopeShape(k) ==
    IF k.level = "university" THEN k.unit = NoId /\ k.div = NoId
    ELSE IF k.level = "faculty" THEN
        k.unit \in Units /\ UnitType[k.unit] = "faculty" /\ k.div = NoId
    ELSE /\ k.level = "department"
         /\ k.div \in Divisions
         /\ UnitType[DivUnit[k.div]] = "faculty"
         /\ k.unit # NoId => k.unit = DivUnit[k.div]

\* C28: every stored role row has the scope shape of its level (a university grant
\* without unit and division, a faculty grant with one unit of type faculty and no
\* division, a department grant with one division of a faculty-type unit), and a
\* posted grant whose row has not that shape changes nothing in admin_roles.
C28_GrantsHaveScopeShape ==
    /\ [](\A k \in RoleKeys : roles[k] # "absent" => HasScopeShape(k))
    /\ [][\A a \in Users, form \in AdminForms :
              add_admin_post(a, form) /\ ~HasScopeShape(grant_role_target(form)) =>
                  roles' = roles]_vars

\* the approved items of user u
ApprovedItemsOf(u) ==
    {i \in DOMAIN items :
        OwnerOf[i] = u /\ items[i].row = "live" /\ items[i].approval_status = "approved"}

\* C29: the total of hours on the owner's dashboard is the sum of the hours of the
\* owner's approved items: items in draft, pending, department_approved,
\* faculty_approved or returned add nothing to it.
C29_OnlyApprovedHoursCount ==
    \A u \in Users : dashboard_total_hours(u) = SumHours(PublicationAuthorHours, ApprovedItemsOf(u))

\* the hours of one unit of each activity type, 0 for a type that is not known
HoursPerUnit ==
    [t \in ActivityTypes |->
        IF t \in {"student_research_university", "team_training"} THEN 75
        ELSE IF t = "student_research_faculty" THEN 30
        ELSE IF t = "exhibition_product" THEN 45
        ELSE 0]

\* the hours of record n of the list handed to the summary, counted for the year asked
RawHoursOf(n) ==
    IF ctx.activities[n].year # ctx.year THEN 0
    ELSE HoursPerUnit[ctx.activities[n].activity_type]
         * (IF ctx.activities[n].quantity = 0 THEN 1 ELSE ctx.activities[n].quantity)

\* the raw sum of the year asked
RawSum == SumHours([n \in DOMAIN ctx.activities |-> RawHoursOf(n)], DOMAIN ctx.activities)

\* the summary has been computed
Summarized == dec.year \in Years

\* C30: for every list of other-activity records and every year, capped_hours of the
\* yearly summary is at most the ceiling of 250, is the smaller of the raw sum and
\* the ceiling, and is_capped is true exactly when the raw sum is above the ceiling.
C30_OtherActivitiesCapped ==
    Summarized =>
        /\ dec.capped_hours <= 250
        /\ dec.capped_hours = (IF RawSum <= 250 THEN RawSum ELSE 250)
        /\ dec.is_capped <=> RawSum > 250

\* C30 witness: two records of the year asked, of different types, sum to 330 hours
\* and the summary is capped at 250
C30_Witness ==
    /\ Summarized
    /\ Len(ctx.activities) = 2
    /\ ctx.activities[1].activity_type # ctx.activities[2].activity_type
    /\ RawSum = 330
    /\ dec.is_capped /\ dec.capped_hours = 250 /\ dec.total_raw_hours = 330

(***************************************************************************)
(* Hours engine on unrecognized or incomplete records                      *)
(***************************************************************************)
\* the record of the state has been through the function of its table
Calculated(table) == dec # NoHours /\ dec.table = table

\* a publication type get_base_hours has no branch for
UnknownPublicationType ==
    ctx.publication_type \notin DOMAIN FlatTypeHours \cup {"journal_wos_scopus", "journal_domestic"}

\* a top-international journal whose quartile is missing or none of Q1..Q4
QuartileMissing ==
    ctx.publication_type = "journal_wos_scopus" /\ ctx.quartile \notin {"Q1", "Q2", "Q3", "Q4"}

\* a domestic journal without a point score
PointsMissing == ctx.publication_type = "journal_domestic" /\ ctx.domestic_points = NoNumber

\* an author role that is missing or none of the four roles
AuthorRoleUnknown ==
    ctx.author_role \notin {"first", "corresponding", "first_corresponding", "middle"}

\* a project tier calculate_project_hours has no branch for
UnknownProjectLevel ==
    ctx.project_level \notin {"national", "vnu_ministry", "university", "cooperation"}

\* a project role that is none of leader, secretary, member
UnknownProjectRole == ctx.role \notin {"leader", "secretary", "member"}

\* an activity type calculate_other_activity_hours has no rate for
UnknownActivityType ==
    ctx.activity_type \notin {"student_research_university", "student_research_faculty",
                              "team_training", "exhibition_product"}

\* C31: every unrecognized or incomplete record is credited 0 hours: a publication of
\* an unknown type, a top-international journal with a missing or unrecognized
\* quartile, a domestic journal with no point score, a publication with an unknown or
\* missing author role, a project of an unknown tier or with an unknown project role,
\* and an activity of an unknown type.
C31_UnrecognizedInputCreditsZero ==
    /\ Calculated("publications")
           /\ (UnknownPublicationType \/ QuartileMissing \/ PointsMissing \/ AuthorRoleUnknown)
       => dec.hours.author_hours = 0
    /\ Calculated("projects") /\ (UnknownProjectLevel \/ UnknownProjectRole)
       => dec.hours.user_hours = 0 /\ dec.per_year = 0
    /\ Calculated("other_activities") /\ UnknownActivityType => dec.hours = 0

(***************************************************************************)
(* Author hours by role                                                    *)
(***************************************************************************)
FracEq(x, y) == x.num * y.den = y.num * x.den

FracLess(x, y) == x.num * y.den < y.num * x.den

\* the author hours of the publication of the state, had its author the given role
AuthorHoursAs(role) ==
    calculate_author_hours(publication_base_hours(ctx), role, or_number(ctx.total_authors, 1),
                           ctx.contribution_percentage)

\* (2/3 of base) / total_authors + sixths/6 of base, for the publication of the state
ShareAndBonus(sixths) ==
    Frac(publication_base_hours(ctx).num * (4 + sixths * or_number(ctx.total_authors, 1)),
         publication_base_hours(ctx).den * 6 * or_number(ctx.total_authors, 1))

\* the contribution percentage of the publication of the state replaces the split
OverrideInEffect == ctx.contribution_percentage # NoNumber /\ ctx.contribution_percentage > 0

\* the ordering and the bonuses of the four roles, for the publication of the state
AuthorHoursByRole ==
    /\ ~FracLess(AuthorHoursAs("first_corresponding"), AuthorHoursAs("first"))
    /\ FracEq(AuthorHoursAs("first"), AuthorHoursAs("corresponding"))
    /\ FracLess(AuthorHoursAs("middle"), AuthorHoursAs("first"))
    /\ FracEq(AuthorHoursAs("first_corresponding"), ShareAndBonus(2))
    /\ FracEq(AuthorHoursAs("first"), ShareAndBonus(1))
    /\ FracEq(AuthorHoursAs("corresponding"), ShareAndBonus(1))
    /\ FracEq(AuthorHoursAs("middle"), ShareAndBonus(0))
    /\ dec.hours.author_hours = round2(AuthorHoursAs(or_string(ctx.author_role, "middle")))

\* C32 as stated: for positive base hours, every total_authors and every contribution
\* setting, first_corresponding >= first = corresponding > middle, the author hours
\* being (2/3 of base)/total_authors plus 1/3 of base for first_corresponding, 1/6 of
\* base for first or corresponding alone, and nothing for middle.
C32_AuthorHoursByRoleAnyContribution ==
    Calculated("publications") /\ publication_base_hours(ctx).num > 0 => AuthorHoursByRole

\* C32: for positive base hours and every total_authors, when no contribution
\* percentage above 0 is set, first_corresponding >= first = corresponding > middle,
\* the author hours being (2/3 of base)/total_authors plus 1/3 of base for
\* first_corresponding (not 1/6 twice), 1/6 of base for first or corresponding alone,
\* and nothing for middle; with a contribution percentage above 0 every role is
\* credited base * percentage / 100.
C32_AuthorHoursByRole ==
    Calculated("publications") /\ publication_base_hours(ctx).num > 0
    => /\ ~OverrideInEffect => AuthorHoursByRole
       /\ OverrideInEffect
          => \A role \in AuthorRoles :
                 FracEq(AuthorHoursAs(role),
                        FracMul(publication_base_hours(ctx), ctx.contribution_percentage, 100))

\* Scenario D: a Q1 journal (base 1800), 4 authors, first author, no percentage: 600 hours
C32_Witness ==
    /\ Calculated("publications")
    /\ ctx.publication_type = "journal_wos_scopus" /\ ctx.quartile = "Q1"
    /\ ctx.total_authors = 4 /\ ctx.author_role = "first"
    /\ ~OverrideInEffect
    /\ dec.hours = [base_hours |-> 180000, author_hours |-> 60000]

(***************************************************************************)
(* Project hours: amortization over the years and shares of the roles      *)
(***************************************************************************)
\* the project of the state is of one of the three graded tiers
GradedTier == ctx.project_level \in {"national", "vnu_ministry", "university"}

\* the years from start_year to end_year of the project of the state
SpanOfYears == {y \in ProjectYears : ctx.start_year <= y /\ y <= ctx.end_year}

RECURSIVE SumOverYears(_, _)
\* the sum over the years of Y of the same credit for every year
SumOverYears(Y, credit) ==
    IF Y = {} THEN 0
    ELSE LET y == CHOOSE z \in Y : TRUE IN credit + SumOverYears(Y \ {y}, credit)

\* C33: for a project of a graded tier with start_year <= end_year the credits of the
\* years of [start_year, end_year], each the user's hours divided by the number of
\* those years, add up to the user's un-amortized hours; for a cooperation project
\* the credit of a year is the user's hours of the formula, not divided by the span.
C33_PerYearCreditsAddUp ==
    Calculated("projects")
    => /\ GradedTier /\ ctx.start_year <= ctx.end_year
          => SumOverYears(SpanOfYears, dec.per_year) = dec.hours.user_hours
       /\ ctx.project_level = "cooperation" => dec.per_year = dec.hours.user_hours

\* the project of the state is not extended and of a tier with a member pool
PoolTier ==
    /\ or_string(ctx.status, "completed") # "extended"
    /\ ctx.project_level \in {"national", "vnu_ministry", "cooperation"}

\* max(0, total_members - 2)
OtherMemberSlots == IF ctx.total_members > 2 THEN ctx.total_members - 2 ELSE 0

\* the hours credited to the leader, the secretary and every other member together
CreditedToAll ==
    dec.hours.leader_hours + dec.hours.secretary_hours
    + dec.hours.other_members_count * dec.hours.member_each_hours

\* the member pool is divided evenly among the other members, and a member of a
\* project without other-member slots is credited 0
PoolDividedEvenly ==
    /\ dec.hours.other_members_count = OtherMemberSlots
    /\ OtherMemberSlots > 0
       => dec.hours.member_each_hours
              = round2(Frac(dec.hours.member_pool_hours, 100 * OtherMemberSlots))
    /\ OtherMemberSlots = 0 /\ ctx.role = "member" => dec.hours.user_hours = 0
    /\ ctx.project_level = "national" /\ ctx.total_members = 5 /\ ctx.role = "member"
       => dec.hours.member_pool_hours = 25000 /\ dec.hours.user_hours = 8333

\* C34: for a non-extended national, ministry or cooperation project the member pool
\* is divided evenly among max(0, total_members - 2) other members, a member is
\* credited 0 when there are no other-member slots, and the hours of the leader, the
\* secretary and all other members together never exceed the total hours of the
\* project.
C34_SharesWithinTotal ==
    Calculated("projects") /\ PoolTier
    => PoolDividedEvenly /\ CreditedToAll <= dec.hours.total_hours

(***************************************************************************)
(* Agreement of the three pure decision functions                          *)
(***************************************************************************)
\* the level whose admin the rows of the approve table stand for, row by row
ApproveRowLevel ==
    <<"university", "department", "faculty", "university", "faculty", "university",
      "university">>

\* department below faculty below university
LevelOrder(l) == IF l = "department" THEN 1 ELSE IF l = "faculty" THEN 2 ELSE 3

\* the levels of the rows of the approve table that match c
MatchingLevels(c) == {ApproveRowLevel[n] : n \in MatchingRows(c)}

\* C35: for every context whose current_status is one of the six statuses, can_approve
\* allows if and only if next_status differs from the current status, and if and only
\* if action_level returns a level; that level is the lowest of the levels whose row
\* of the approve table matches.
C35_DecisionFunctionsAgree ==
    dec.done /\ ctx.current_status \in Statuses
    => /\ dec.ok <=> dec.next # ctx.current_status
       /\ dec.ok <=> dec.level \in Levels
       /\ dec.level \in Levels \/ dec.level = NoId
       /\ dec.ok => /\ dec.level \in MatchingLevels(ctx)
                    /\ \A l \in MatchingLevels(ctx) : LevelOrder(dec.level) <= LevelOrder(l)

\* C35 witness: a pending item whose department level is vacant, decided for an actor
\* with faculty and university access: rows of two levels match, the approve is
\* allowed, moves the item to faculty_approved and is an approve of the faculty level
C35_Witness ==
    /\ dec.done
    /\ ctx.current_status = "pending" /\ ~ctx.is_office /\ ~ctx.can_department
    /\ MatchingLevels(ctx) = {"faculty", "university"}
    /\ dec.ok /\ dec.next = "faculty_approved" /\ dec.level = "faculty"

(***************************************************************************)
(* The needs-my-action listing against the executor                        *)
(***************************************************************************)
\* what the turn of the loop of the running batch on item i gets from the executor
BatchTurnResult(i) ==
    apply_approval_action(req.context, req.rows[i], i, "approve", req.actor, "")

\* C36: every item that the needs-my-action listing returns for an actor is an item
\* on which that actor's approve is allowed in the same state, so the batch approve
\* refuses none of the items it fetched while nothing else changes them.
C36_ListedItemsAreApprovable ==
    /\ \A a \in Users : \A i \in DOMAIN items :
           admin_required(a) /\ NeedsMyAction(a, i) => ApproveResult(a, i).ok
    /\ req.pc = "running" => \A i \in req.todo : BatchTurnResult(i).ok

\* C36 witness: a batch request fetched two items, has approved one of them and has
\* the other still to visit
C36_Witness ==
    /\ req.pc = "running"
    /\ Cardinality(req.batch) = 2 /\ Cardinality(req.todo) = 1
    /\ req.count = 1
    /\ \A i \in req.todo : NeedsMyAction(req.actor, i)

(***************************************************************************)
(* The approval stamp of an item                                           *)
(***************************************************************************)
\* the row carries the approval stamp: approved_at and approved_by
Stamped(r) == r.approved_at /\ r.approved_by # NoId

\* the row carries neither approved_at nor approved_by
Unstamped(r) == ~r.approved_at /\ r.approved_by = NoId

\* C37: in every reachable state an item has approved_at and approved_by set if and
\* only if its approval_status is approved, and has neither of them otherwise.
C37_StampedIffApproved ==
    \A i \in DOMAIN items :
        items[i].row = "live"
        => IF items[i].approval_status = "approved" THEN Stamped(items[i])
           ELSE Unstamped(items[i])

(***************************************************************************)
(* An approved item                                                        *)
(***************************************************************************)
\* item i is stored with status approved
IsApproved(i) == items[i].row = "live" /\ items[i].approval_status = "approved"

\* the step appends the log entry of a reject of item i and nothing else
RejectLogged(i) ==
    /\ Len(log') = Len(log) + 1
    /\ SubSeq(log', 1, Len(log)) = log
    /\ log'[Len(log')].item_id = i
    /\ log'[Len(log')].action = "reject"
    /\ log'[Len(log')].old_status = "approved"

\* C38: once an item is approved, the only operation that changes it is a reject,
\* which sets its approval_status to pending: every other operation (approve and
\* return by an admin, edit, submit, save-as-draft and delete by the owner) leaves an
\* approved item as it is.
C38_ApprovedOnlyChangedByReject ==
    [][\A i \in DOMAIN items :
           IsApproved(i) /\ items'[i] # items[i]
           => /\ RejectLogged(i)
              /\ items'[i].row = "live"
              /\ items'[i].approval_status = "pending"]_vars

(***************************************************************************)
(* Who changes a role grant                                                *)
(***************************************************************************)
\* the step is a request of actor a that changes the row of the grant k: a grant or
\* re-activation through add_admin, a toggle, or a delete
ChangesGrant(a, k) ==
    /\ roles'[k] # roles[k]
    /\ add_admin(a, k) \/ toggle_admin_role(a, k) \/ delete_admin_role(a, k)

\* the effective level of the requests of user a
EffectiveLevelOf(a) == effective_admin_level(get_effective_context(a))

\* C39: an actor never grants, re-activates, deactivates or deletes a role grant whose
\* level is above the actor's own effective level: an actor at department level or
\* without admin level changes no grant, an actor at faculty level changes faculty and
\* department grants only.
C39_NoGrantChangeAboveOwnLevel ==
    [][\A a \in Users, k \in RoleKeys :
           ChangesGrant(a, k)
           => /\ EffectiveLevelOf(a) \in {"university", "faculty"}
              /\ ADMIN_LEVEL_HIERARCHY[k.level] <= ADMIN_LEVEL_HIERARCHY[EffectiveLevelOf(a)]]_vars

\* C39 witness: a user acting at faculty level holds a university grant that is
\* switched off, next to the active university grant of another user: grants have
\* been made and deactivated, and one of them is above the level the user acts at
C39_Witness ==
    \E a \in Users :
        /\ ActsAtLevel(a, "faculty")
        /\ roles[UniversityRole(a)] = "inactive"
        /\ \E b \in Users \ {a} : roles[UniversityRole(b)] = "active"

====
